---- MODULE Spec2Model ----
(***************************************************************************)
(* State machine of the leveraged AMM with bonding-curve launch.           *)
(*                                                                         *)
(* One market: a BondingCurve record, a Pool record, the Position records  *)
(* keyed by (owner, nonce), the lamports and tokens physically held by the *)
(* pool account and its vault, and the cluster clock.  Every instruction   *)
(* handler is one action.  An instruction that returns an error leaves     *)
(* every account untouched (the runtime rolls the transaction back); the   *)
(* variable "last" records the instruction, its error kind and what it     *)
(* paid out, together with the pool and the position it started from;      *)
(* "history" counts, per position address, the records created and the     *)
(* records paid out and destroyed.                                         *)
(*                                                                         *)
(* Units.  Arithmetic is the code's integer arithmetic (floor division,    *)
(* explicit round-up).  SOL amounts are counted in units of 10^9 lamports  *)
(* and token amounts in units of 10^12 base units, so the slope scale      *)
(* 10^18 of bonding_curve.rs becomes 10^18 * 10^9 / 10^24 = 10^3 and the   *)
(* default launch (200 SOL, 280M tokens, 420M supply) is (200, 280, 420).  *)
(* The funding fixed point keeps PRECISION / 10000 >= 1 with 14 fractional *)
(* bits instead of 32; the liquidation index uses twice that width, as the *)
(* 64 bits of liquidate.rs are twice the 32 bits of close_position.rs.     *)
(* No modelled amount comes near 2^64, so the u64/u128 overflow branches   *)
(* of checked_add / checked_mul are never taken and are left out;          *)
(* checked_sub and checked_div keep their failure branches.                *)
(*                                                                         *)
(* Pool layout.  leverage_swap.rs, close_position.rs, launch_on_curve.rs   *)
(* and swap_on_curve.rs write the fields sol_reserve, token_reserve,       *)
(* effective_sol_reserve, effective_token_reserve, total_delta_k_longs,    *)
(* total_delta_k_shorts, cumulative_funding_accumulator and                *)
(* last_update_timestamp.  pool.rs, swap.rs and liquidate.rs name the      *)
(* pricing reserves lamports (+ virtual_sol_amount) and token_y_amount     *)
(* (+ virtual_token_y_amount), the debt total_delta_k, the invariant       *)
(* original_k, the accumulator cumulative_funding_rate_index and the time  *)
(* last_funding_timestamp.  They are read here as                          *)
(*    lamports + virtual_sol_amount        = effective_sol_reserve         *)
(*    token_y_amount + virtual_token_y_amount = effective_token_reserve    *)
(*    total_delta_k  = total_delta_k_longs + total_delta_k_shorts          *)
(*                     (a write goes to the total of the position's side)  *)
(*    original_k     = effective_sol_reserve * effective_token_reserve     *)
(*                     + total_delta_k  (the product before the            *)
(*                     outstanding leverage was taken out of the reserves) *)
(*    cumulative_funding_rate_index = cumulative_funding_accumulator       *)
(*    last_funding_timestamp        = last_update_timestamp                *)
(* virtual_sol_amount, virtual_token_y_amount, leveraged_sol_amount and    *)
(* leveraged_token_y_amount are written by no handler of the curve         *)
(* program and stay 0.                                                     *)
(***************************************************************************)
EXTENDS Integers, FiniteSets, Sequences, TLC

VARIABLES bonding_curve, pool, positions, pool_lamports, vault_tokens,
          clock, last, history, nops

vars == <<bonding_curve, pool, positions, pool_lamports, vault_tokens,
          clock, last, history, nops>>

(***************************************************************************)
(* Bounds of the model.                                                    *)
(***************************************************************************)
MaxOps == 6
MaxClock == 100000
ClockStep == 100000

Users == {"alice", "bob"}
Nonces == {0}
Keys == Users \X Nonces
NoPosition ==
  [open |-> FALSE, authority |-> "none", is_long |-> FALSE, collateral |-> 0,
   leverage |-> 0, size |-> 0, delta_k |-> 0, nonce |-> 0,
   entry_funding_accumulator |-> 0]

(***************************************************************************)
(* Program constants.                                                      *)
(***************************************************************************)
SLOPE_PRECISION == 1000
DEFAULT_TOTAL_SUPPLY == 420
DEFAULT_TARGET_SOL == 200
DEFAULT_TARGET_TOKENS_SOLD == 280
PRECISION_BITS == 14
PRECISION == 2 ^ PRECISION_BITS
INDEX_PRECISION == 2 ^ (2 * PRECISION_BITS)
PRICE_PRECISION == 1000

Ok(v) == [err |-> "Ok", val |-> v]
Err(e) == [err |-> e, val |-> 0]

\* The element of a singleton set: an intermediate result bound once.
Only(S) == CHOOSE v \in S : TRUE

Min(a, b) == IF a < b THEN a ELSE b

(***************************************************************************)
(* state/bonding_curve.rs                                                  *)
(***************************************************************************)
RECURSIVE sqrt_loop(_, _, _)
sqrt_loop(n, x, y) ==
  IF y < x THEN sqrt_loop(n, y, (y + n \div y) \div 2) ELSE x

\* integer_sqrt that stops after the first Newton step.
integer_sqrt_one_step(n) ==
  IF n = 0 THEN 0
  ELSE LET x == n \div 2 + 1
       IN Min(x, (x + n \div x) \div 2)

integer_sqrt(n) ==
  IF n = 0 THEN 0
  ELSE LET x == n \div 2 + 1
       IN sqrt_loop(n, x, (x + n \div x) \div 2)

calculate_slope(target_sol, target_tokens_sold) ==
  IF target_tokens_sold = 0 THEN Err("InvalidBondingCurveParams")
  ELSE Ok((2 * target_sol * SLOPE_PRECISION)
            \div (target_tokens_sold * target_tokens_sold))

calculate_tokens_out_for_sol(bc, sol_in) ==
  IF sol_in = 0 THEN Err("ZeroSwapAmount")
  ELSE IF bc.bonding_curve_slope_m = 0 THEN Err("MathOverflow")
  ELSE LET q1 == bc.tokens_sold_on_curve
           term == (2 * sol_in * SLOPE_PRECISION) \div bc.bonding_curve_slope_m
           q2 == integer_sqrt(q1 * q1 + term)
       IN IF q2 < q1 THEN Err("MathUnderflow") ELSE Ok(q2 - q1)

\* calculate_sol_out_for_tokens without the halving of m * diff.
calculate_sol_out_for_tokens_unhalved(bc, tokens_in) ==
  IF tokens_in = 0 THEN Err("ZeroSwapAmount")
  ELSE IF tokens_in > bc.tokens_sold_on_curve THEN Err("InsufficientTokensSold")
  ELSE LET q1 == bc.tokens_sold_on_curve
           q2 == q1 - tokens_in
           diff == q1 * q1 - q2 * q2
           sol_out == (bc.bonding_curve_slope_m * diff) \div SLOPE_PRECISION
       IN IF sol_out > bc.sol_raised_on_curve THEN Err("InsufficientCurveSol")
          ELSE Ok(sol_out)

calculate_sol_out_for_tokens(bc, tokens_in) ==
  IF tokens_in = 0 THEN Err("ZeroSwapAmount")
  ELSE IF tokens_in > bc.tokens_sold_on_curve THEN Err("InsufficientTokensSold")
  ELSE LET q1 == bc.tokens_sold_on_curve
           q2 == q1 - tokens_in
           diff == q1 * q1 - q2 * q2
           sol_out == ((bc.bonding_curve_slope_m * diff) \div 2) \div SLOPE_PRECISION
       IN IF sol_out > bc.sol_raised_on_curve THEN Err("InsufficientCurveSol")
          ELSE Ok(sol_out)

(***************************************************************************)
(* Initial state: no market has been launched.                             *)
(***************************************************************************)
NoCurve ==
  [status |-> "Uninitialized", bonding_curve_slope_m |-> 0,
   tokens_sold_on_curve |-> 0, sol_raised_on_curve |-> 0,
   bonding_target_sol |-> 0, bonding_target_tokens_sold |-> 0]

ZeroPool ==
  [sol_reserve |-> 0, token_reserve |-> 0,
   effective_sol_reserve |-> 0, effective_token_reserve |-> 0,
   total_delta_k_longs |-> 0, total_delta_k_shorts |-> 0,
   cumulative_funding_accumulator |-> 0, unrealized_funding_fees |-> 0,
   last_update_timestamp |-> 0,
   ema_price |-> 0, ema_initialized |-> FALSE,
   funding_constant_c |-> 0, liquidation_divergence_threshold |-> 0]

NoLast ==
  [op |-> "none", err |-> "Ok", key |-> <<"alice", 0>>, arg |-> 0,
   leverage |-> 0, is_sol |-> FALSE, out |-> 0, refund |-> 0, at |-> 0,
   signer |-> "none",
   pre |-> ZeroPool, prepos |-> NoPosition,
   just_opened |-> FALSE, open_amount |-> 0, open_pre |-> ZeroPool,
   precurve |-> NoCurve, prelamports |-> 0,
   bought |-> 0, bought_out |-> 0, bought_pre |-> NoCurve,
   params |-> <<0, 0, 0>>, min_out |-> 0]

Init ==
  /\ bonding_curve = NoCurve
  /\ pool = ZeroPool
  /\ positions = [k \in Keys |-> NoPosition]
  /\ pool_lamports = 0
  /\ vault_tokens = 0
  /\ clock = 0
  /\ last = NoLast
  /\ history = [k \in Keys |-> [opened |-> 0, settled |-> 0]]
  /\ nops = 0

(***************************************************************************)
(* instructions/launch_on_curve.rs                                         *)
(***************************************************************************)
\* An Option<u64> argument that was not provided.
None == -1

unwrap_or(opt, default) == IF opt = None THEN default ELSE opt

launch_validated(total_supply, target_sol, target_tokens_sold) ==
  IF ~(total_supply > 0) THEN Err("InvalidBondingCurveParams")
  ELSE IF ~(target_sol > 0) THEN Err("InvalidBondingCurveParams")
  ELSE IF ~(target_tokens_sold > 0) THEN Err("InvalidBondingCurveParams")
  ELSE IF ~(target_tokens_sold <= total_supply) THEN Err("InvalidBondingCurveParams")
  ELSE LET slope == calculate_slope(target_sol, target_tokens_sold)
       IN IF slope.err # "Ok" THEN slope
          ELSE Ok([curve |->
                     [status |-> "Active",
                      bonding_curve_slope_m |-> slope.val,
                      tokens_sold_on_curve |-> 0,
                      sol_raised_on_curve |-> 0,
                      bonding_target_sol |-> target_sol,
                      bonding_target_tokens_sold |-> target_tokens_sold],
                   pool |->
                     [ZeroPool EXCEPT
                        !.last_update_timestamp = clock,
                        !.funding_constant_c = PRECISION \div 10000,
                        !.liquidation_divergence_threshold = 10],
                   minted |-> total_supply])

\* handle_launch_on_curve that validates the arguments as given, without
\* filling in the defaults.
handle_launch_on_curve_without_defaults(total_supply, target_sol, target_tokens_sold) ==
  launch_validated(total_supply, target_sol, target_tokens_sold)

handle_launch_on_curve(total_supply, target_sol, target_tokens_sold) ==
  launch_validated(unwrap_or(total_supply, DEFAULT_TOTAL_SUPPLY), unwrap_or(target_sol, DEFAULT_TARGET_SOL), unwrap_or(target_tokens_sold, DEFAULT_TARGET_TOKENS_SOLD))

LaunchParams ==
  { <<None, None, None>>,
    <<300, 100, 200>>,
    <<300, 50, 100>>,
    <<4, 40, 4>>,
    <<300, 10, 200>>,
    <<100, 100, 200>>,
    <<100, None, None>>,
    <<0, 100, 200>>,
    <<300, 0, 100>>,
    <<300, 100, 0>> }

LaunchOnCurve ==
  /\ bonding_curve.status = "Uninitialized"
  /\ nops < MaxOps
  /\ \E p \in LaunchParams :
       \E r \in {handle_launch_on_curve(p[1], p[2], p[3])} :
          /\ IF r.err = "Ok"
             THEN /\ bonding_curve' = r.val.curve
                  /\ pool' = r.val.pool
                  /\ vault_tokens' = r.val.minted
             ELSE UNCHANGED <<bonding_curve, pool, vault_tokens>>
          /\ last' = [NoLast EXCEPT !.op = "launch_on_curve", !.err = r.err, !.at = clock,
                                    !.arg = p[3], !.pre = pool,
                                    !.params = p, !.precurve = bonding_curve]
  /\ nops' = nops + 1
  /\ UNCHANGED <<positions, pool_lamports, clock, history>>

(***************************************************************************)
(* instructions/swap_on_curve.rs                                           *)
(***************************************************************************)
\* graduate_to_amm that seeds the pool with the whole token target.
graduate_to_amm_whole_target(bc, p, lamports, sol_refund) ==
  LET lp_tokens == bc.bonding_target_tokens_sold
      sol_raised == bc.sol_raised_on_curve
  IN IF lp_tokens = 0 THEN Err("MathOverflow")
     ELSE IF sol_refund > 0 /\ lamports < sol_refund THEN Err("InsufficientFunds")
     ELSE Ok([curve |-> [bc EXCEPT !.status = "Graduated"],
              pool |-> [p EXCEPT
                          !.sol_reserve = sol_raised,
                          !.effective_sol_reserve = sol_raised,
                          !.token_reserve = lp_tokens,
                          !.effective_token_reserve = lp_tokens,
                          !.last_update_timestamp = clock,
                          !.ema_price = (sol_raised * PRICE_PRECISION) \div lp_tokens,
                          !.ema_initialized = TRUE],
              lamports |-> lamports - sol_refund])

graduate_to_amm(bc, p, lamports, sol_refund) ==
  LET lp_tokens == bc.bonding_target_tokens_sold \div 2
      sol_raised == bc.sol_raised_on_curve
  IN IF lp_tokens = 0 THEN Err("MathOverflow")
     ELSE IF sol_refund > 0 /\ lamports < sol_refund THEN Err("InsufficientFunds")
     ELSE Ok([curve |-> [bc EXCEPT !.status = "Graduated"],
              pool |-> [p EXCEPT
                          !.sol_reserve = sol_raised,
                          !.effective_sol_reserve = sol_raised,
                          !.token_reserve = lp_tokens,
                          !.effective_token_reserve = lp_tokens,
                          !.last_update_timestamp = clock,
                          !.ema_price = (sol_raised * PRICE_PRECISION) \div lp_tokens,
                          !.ema_initialized = TRUE],
              lamports |-> lamports - sol_refund])

\* curve_buy that graduates on the token target only.
curve_buy_token_target_only(bc, p, lamports, vault, amount_in, min_amount_out) ==
  LET quote == calculate_tokens_out_for_sol(bc, amount_in)
  IN IF quote.err # "Ok" THEN quote
     ELSE
     LET q1 == bc.tokens_sold_on_curve
         capped == q1 + quote.val > bc.bonding_target_tokens_sold
         tokens_out == IF capped THEN bc.bonding_target_tokens_sold - q1
                       ELSE quote.val
         q2 == q1 + tokens_out
         sol_spent == IF capped
                      THEN ((bc.bonding_curve_slope_m * (q2 * q2 - q1 * q1)) \div 2)
                             \div SLOPE_PRECISION
                      ELSE amount_in
         sol_refund == IF capped THEN amount_in - sol_spent ELSE 0
         bc2 == [bc EXCEPT !.sol_raised_on_curve = @ + sol_spent,
                           !.tokens_sold_on_curve = @ + tokens_out]
         should_graduate ==
            bc2.tokens_sold_on_curve >= bc2.bonding_target_tokens_sold
         res(c, pl, lam) == [curve |-> c, pool |-> pl, lamports |-> lam,
                             vault |-> vault - tokens_out, out |-> tokens_out,
                             refund |-> sol_refund]
     IN IF capped /\ sol_spent > amount_in THEN Err("MathUnderflow")
        ELSE IF ~(tokens_out >= min_amount_out) THEN Err("SlippageToleranceExceeded")
        ELSE IF vault < tokens_out THEN Err("TokenTransferFailed")
        ELSE IF should_graduate
        THEN LET g == graduate_to_amm(bc2, p, lamports + sol_spent, sol_refund)
             IN IF g.err # "Ok" THEN g
                ELSE Ok(res(g.val.curve, g.val.pool, g.val.lamports))
        ELSE IF sol_refund > 0 /\ lamports + sol_spent < sol_refund
        THEN Err("InsufficientFunds")
        ELSE Ok(res(bc2, p, lamports + sol_spent - sol_refund))

curve_buy(bc, p, lamports, vault, amount_in, min_amount_out) ==
  LET quote == calculate_tokens_out_for_sol(bc, amount_in)
  IN IF quote.err # "Ok" THEN quote
     ELSE
     LET q1 == bc.tokens_sold_on_curve
         capped == q1 + quote.val > bc.bonding_target_tokens_sold
         tokens_out == IF capped THEN bc.bonding_target_tokens_sold - q1
                       ELSE quote.val
         q2 == q1 + tokens_out
         sol_spent == IF capped
                      THEN ((bc.bonding_curve_slope_m * (q2 * q2 - q1 * q1)) \div 2)
                             \div SLOPE_PRECISION
                      ELSE amount_in
         sol_refund == IF capped THEN amount_in - sol_spent ELSE 0
         bc2 == [bc EXCEPT !.sol_raised_on_curve = @ + sol_spent,
                           !.tokens_sold_on_curve = @ + tokens_out]
         should_graduate ==
            \/ bc2.sol_raised_on_curve >= bc2.bonding_target_sol
            \/ bc2.tokens_sold_on_curve >= bc2.bonding_target_tokens_sold
         res(c, pl, lam) == [curve |-> c, pool |-> pl, lamports |-> lam,
                             vault |-> vault - tokens_out, out |-> tokens_out,
                             refund |-> sol_refund]
     IN IF capped /\ sol_spent > amount_in THEN Err("MathUnderflow")
        ELSE IF ~(tokens_out >= min_amount_out) THEN Err("SlippageToleranceExceeded")
        ELSE IF vault < tokens_out THEN Err("TokenTransferFailed")
        ELSE IF should_graduate
        THEN LET g == graduate_to_amm(bc2, p, lamports + sol_spent, sol_refund)
             IN IF g.err # "Ok" THEN g
                ELSE Ok(res(g.val.curve, g.val.pool, g.val.lamports))
        ELSE IF sol_refund > 0 /\ lamports + sol_spent < sol_refund
        THEN Err("InsufficientFunds")
        ELSE Ok(res(bc2, p, lamports + sol_spent - sol_refund))

\* curve_sell that pays the seller without taking the SOL off sol_raised_on_curve.
curve_sell_keeping_sol_raised(bc, p, lamports, vault, amount_in, min_amount_out) ==
  LET quote == calculate_sol_out_for_tokens(bc, amount_in)
  IN IF quote.err # "Ok" THEN quote
     ELSE IF ~(quote.val >= min_amount_out) THEN Err("SlippageToleranceExceeded")
     ELSE IF lamports < quote.val THEN Err("InsufficientFunds")
     ELSE Ok([curve |-> [bc EXCEPT !.tokens_sold_on_curve = @ - amount_in],
              pool |-> p, lamports |-> lamports - quote.val,
              vault |-> vault + amount_in, out |-> quote.val, refund |-> 0])

curve_sell(bc, p, lamports, vault, amount_in, min_amount_out) ==
  LET quote == calculate_sol_out_for_tokens(bc, amount_in)
  IN IF quote.err # "Ok" THEN quote
     ELSE IF ~(quote.val >= min_amount_out) THEN Err("SlippageToleranceExceeded")
     ELSE IF lamports < quote.val THEN Err("InsufficientFunds")
     ELSE Ok([curve |-> [bc EXCEPT !.tokens_sold_on_curve = @ - amount_in,
                                   !.sol_raised_on_curve = @ - quote.val],
              pool |-> p, lamports |-> lamports - quote.val,
              vault |-> vault + amount_in, out |-> quote.val, refund |-> 0])

\* handle_swap_on_curve without the check that the curve is Active.
handle_swap_on_curve_any_status(bc, p, lamports, vault, amount_in, min_amount_out, input_is_sol) ==
  IF ~(amount_in > 0) THEN Err("ZeroSwapAmount")
  ELSE IF input_is_sol
       THEN curve_buy(bc, p, lamports, vault, amount_in, min_amount_out)
       ELSE curve_sell(bc, p, lamports, vault, amount_in, min_amount_out)

handle_swap_on_curve(bc, p, lamports, vault, amount_in, min_amount_out, input_is_sol) ==
  IF ~(amount_in > 0) THEN Err("ZeroSwapAmount")
  ELSE IF bc.status # "Active" THEN Err("BondingCurveNotActive")
  ELSE IF input_is_sol
       THEN curve_buy(bc, p, lamports, vault, amount_in, min_amount_out)
       ELSE curve_sell(bc, p, lamports, vault, amount_in, min_amount_out)

CurveBuyAmounts == {0, 40, 60, 150, 200}
CurveSellAmounts == {40, 154, 244}

\* The instruction before this one was a buy that went through and left the
\* curve Active.
JustBought ==
  /\ last.op = "curve_buy" /\ last.err = "Ok"
  /\ bonding_curve.status = "Active"

SwapOnCurve ==
  /\ bonding_curve.status # "Uninitialized"
  /\ nops < MaxOps
  /\ \E input_is_sol \in BOOLEAN :
     \E amount_in \in (IF input_is_sol THEN CurveBuyAmounts ELSE CurveSellAmounts) :
       \E r \in {handle_swap_on_curve(bonding_curve, pool, pool_lamports,
                                     vault_tokens, amount_in, 0, input_is_sol)} :
          /\ IF r.err = "Ok"
             THEN /\ bonding_curve' = r.val.curve
                  /\ pool' = r.val.pool
                  /\ pool_lamports' = r.val.lamports
                  /\ vault_tokens' = r.val.vault
             ELSE UNCHANGED <<bonding_curve, pool, pool_lamports, vault_tokens>>
          /\ last' = [NoLast EXCEPT
                        !.op = IF input_is_sol THEN "curve_buy" ELSE "curve_sell",
                        !.at = clock,
                        !.err = r.err, !.arg = amount_in,
                        !.out = IF r.err = "Ok" THEN r.val.out ELSE 0,
                        !.refund = IF r.err = "Ok" THEN r.val.refund ELSE 0,
                        !.pre = pool, !.precurve = bonding_curve,
                        !.prelamports = pool_lamports,
                        !.bought = IF JustBought THEN last.arg ELSE 0,
                        !.bought_out = IF JustBought THEN last.out ELSE 0,
                        !.bought_pre = IF JustBought THEN last.precurve
                                       ELSE NoCurve]
  /\ nops' = nops + 1
  /\ UNCHANGED <<positions, clock, history>>

(***************************************************************************)
(* state/pool.rs                                                           *)
(***************************************************************************)
\* calculate_swap_x_to_y with the post-swap token reserve rounded down.
calculate_swap_x_to_y_floor(total_x, total_y, amount_in) ==
  IF amount_in = 0 THEN Err("ZeroSwapAmount")
  ELSE IF total_x = 0 \/ total_y = 0 THEN Err("InsufficientLiquidity")
  ELSE LET y_reserve_after == (total_x * total_y) \div (total_x + amount_in)
       IN IF total_y < y_reserve_after THEN Err("MathOverflow")
          ELSE Ok(total_y - y_reserve_after)

calculate_swap_x_to_y(total_x, total_y, amount_in) ==
  IF amount_in = 0 THEN Err("ZeroSwapAmount")
  ELSE IF total_x = 0 \/ total_y = 0 THEN Err("InsufficientLiquidity")
  ELSE LET x_after == total_x + amount_in
           numerator == total_x * total_y
           y_reserve_after == IF numerator % x_after # 0
                              THEN numerator \div x_after + 1
                              ELSE numerator \div x_after
       IN IF total_y < y_reserve_after THEN Err("MathOverflow")
          ELSE Ok(total_y - y_reserve_after)

calculate_swap_y_to_x_plain(amount_in, total_x, total_y) ==
  IF amount_in = 0 THEN Err("ZeroSwapAmount")
  ELSE IF total_x = 0 \/ total_y = 0 THEN Err("InsufficientLiquidity")
  ELSE LET y_after == total_y + amount_in
           numerator == total_x * total_y
           x_reserve_after == IF numerator % y_after # 0
                              THEN numerator \div y_after + 1
                              ELSE numerator \div y_after
       IN IF total_x < x_reserve_after THEN Err("MathOverflow")
          ELSE Ok(total_x - x_reserve_after)

\* Pool::calculate_output of the curve program: the constant-product quote
\* on the effective reserves, in the direction of the input asset.
calculate_output(p, input_amount, input_is_sol) ==
  IF input_is_sol
  THEN calculate_swap_x_to_y(p.effective_sol_reserve,
                             p.effective_token_reserve, input_amount)
  ELSE calculate_swap_y_to_x_plain(input_amount, p.effective_sol_reserve,
                                   p.effective_token_reserve)

total_delta_k(p) == p.total_delta_k_longs + p.total_delta_k_shorts
original_k(p) ==
  p.effective_sol_reserve * p.effective_token_reserve + total_delta_k(p)

FundingRate(p) ==
  LET k_minus_delta_k == original_k(p) - total_delta_k(p)
      ratio == (total_delta_k(p) * PRECISION) \div k_minus_delta_k
      ratio_squared == (ratio * ratio) \div PRECISION
      c_numerator == PRECISION \div 10000
  IN (c_numerator * ratio_squared) \div PRECISION

\* update_funding_accumulators that moves the accumulator backwards.
update_funding_accumulators_rewinding(p, current_timestamp) ==
  IF total_delta_k(p) = 0 \/ original_k(p) = 0
  THEN Ok([p EXCEPT !.last_update_timestamp = current_timestamp])
  ELSE LET time_elapsed == current_timestamp - p.last_update_timestamp
       IN IF time_elapsed = 0 THEN Ok(p)
          ELSE IF ~(total_delta_k(p) < original_k(p)) THEN Err("ExcessiveLeverage")
          ELSE LET funding_rate == FundingRate(p)
                   total_y == p.effective_token_reserve
                   delta_index == (funding_rate * time_elapsed) \div total_y
               IN IF ~(total_y > 0) THEN Err("InsufficientLiquidity")
                  ELSE Ok([p EXCEPT
                             !.cumulative_funding_accumulator = @ - delta_index,
                             !.last_update_timestamp = current_timestamp])

\* update_funding_accumulators that leaves last_update_timestamp where it
\* was after accruing.
update_funding_accumulators_stale(p, current_timestamp) ==
  IF total_delta_k(p) = 0 \/ original_k(p) = 0
  THEN Ok([p EXCEPT !.last_update_timestamp = current_timestamp])
  ELSE LET time_elapsed == current_timestamp - p.last_update_timestamp
       IN IF time_elapsed = 0 THEN Ok(p)
          ELSE IF ~(total_delta_k(p) < original_k(p)) THEN Err("ExcessiveLeverage")
          ELSE IF time_elapsed < 0 THEN Err("MathOverflow")
          ELSE LET funding_rate == FundingRate(p)
                   total_y == p.effective_token_reserve
                   delta_index == (funding_rate * time_elapsed) \div total_y
                   delta_fees == ((funding_rate * total_delta_k(p) * time_elapsed)
                                    \div total_y) \div PRECISION
               IN IF ~(total_y > 0) THEN Err("InsufficientLiquidity")
                  ELSE Ok([p EXCEPT
                             !.cumulative_funding_accumulator = @ + delta_index,
                             !.unrealized_funding_fees = @ + delta_fees])

\* A negative difference of the two i64 timestamps is cast to u128 (line 71)
\* and becomes a value of at least 2^127: with a funding rate of 0 every
\* product is 0 and the update goes through, otherwise the product of the
\* rate, the total delta_k and the elapsed time overflows u128.
update_funding_accumulators(p, current_timestamp) ==
  IF total_delta_k(p) = 0 \/ original_k(p) = 0
  THEN Ok([p EXCEPT !.last_update_timestamp = current_timestamp])
  ELSE LET time_elapsed == current_timestamp - p.last_update_timestamp
       IN IF time_elapsed = 0 THEN Ok(p)
          ELSE IF ~(total_delta_k(p) < original_k(p)) THEN Err("ExcessiveLeverage")
          ELSE IF time_elapsed < 0
          THEN IF ~(p.effective_token_reserve > 0) THEN Err("InsufficientLiquidity")
               ELSE IF FundingRate(p) = 0
               THEN Ok([p EXCEPT !.last_update_timestamp = current_timestamp])
               ELSE Err("MathOverflow")
          ELSE LET funding_rate == FundingRate(p)
                   total_y == p.effective_token_reserve
                   delta_index == (funding_rate * time_elapsed) \div total_y
                   delta_fees == ((funding_rate * total_delta_k(p) * time_elapsed)
                                    \div total_y) \div PRECISION
               IN IF ~(total_y > 0) THEN Err("InsufficientLiquidity")
                  ELSE Ok([p EXCEPT
                             !.cumulative_funding_accumulator = @ + delta_index,
                             !.unrealized_funding_fees = @ + delta_fees,
                             !.last_update_timestamp = current_timestamp])

\* The model's integers are 32 bits wide: an instruction is explored only
\* where the squared ratio and the fee product of the funding update stay
\* inside that range, or where the update returns before computing them (no
\* debt, no time elapsed).
FundingInRange(p) ==
  IF total_delta_k(p) = 0 \/ original_k(p) <= total_delta_k(p)
     \/ clock = p.last_update_timestamp
  THEN TRUE
  ELSE IF (total_delta_k(p) * PRECISION) \div (original_k(p) - total_delta_k(p))
            > 2 * PRECISION
  THEN FALSE
  ELSE FundingRate(p) * total_delta_k(p)
         <= (4 * INDEX_PRECISION) \div (clock - p.last_update_timestamp)

\* Pool::calculate_position_remaining_factor of the curve program.
calculate_position_remaining_factor(p, entry_funding_accumulator) ==
  LET diff == p.cumulative_funding_accumulator - entry_funding_accumulator
  IN IF diff >= PRECISION THEN Ok(0) ELSE Ok(PRECISION - diff)

(***************************************************************************)
(* instructions/leverage_swap.rs                                           *)
(***************************************************************************)
\* leverage_swap_apply with the whole leveraged input, amount_in * leverage
\* / 10, added to the real and the effective reserve of the input side.
leverage_swap_apply_total_input(p, lamports, vault, user, amount_in, min_amount_out, leverage, nonce, is_sol_to_y, amount_out) ==
  LET total_input == (amount_in * leverage) \div 10
      x_before == p.effective_sol_reserve
      y_before == p.effective_token_reserve
      x_after == IF is_sol_to_y THEN x_before + amount_in
                 ELSE x_before - amount_out
      y_after == IF is_sol_to_y THEN y_before - amount_out
                 ELSE y_before + amount_in
      k_before == x_before * y_before
      k_after == x_after * y_after
      delta_k == k_before - k_after
      position == [open |-> TRUE, authority |-> user, is_long |-> is_sol_to_y,
                   collateral |-> amount_in, leverage |-> leverage,
                   size |-> amount_out, delta_k |-> delta_k, nonce |-> nonce,
                   entry_funding_accumulator |-> p.cumulative_funding_accumulator]
      p2 == IF is_sol_to_y
            THEN [p EXCEPT !.sol_reserve = @ + total_input,
                           !.effective_sol_reserve = @ + total_input,
                           !.effective_token_reserve = @ - amount_out,
                           !.total_delta_k_longs = @ + delta_k]
            ELSE [p EXCEPT !.token_reserve = @ + total_input,
                           !.effective_token_reserve = @ + total_input,
                           !.effective_sol_reserve = @ - amount_out,
                           !.total_delta_k_shorts = @ + delta_k]
  IN IF x_after < 0 \/ y_after < 0 THEN Err("MathUnderflow")
     ELSE IF k_before < k_after THEN Err("MathUnderflow")
     ELSE IF ~(amount_out >= min_amount_out) THEN Err("SlippageToleranceExceeded")
     ELSE Ok([pool |-> p2, position |-> position,
              lamports |-> IF is_sol_to_y THEN lamports + amount_in ELSE lamports,
              vault |-> IF is_sol_to_y THEN vault ELSE vault + amount_in,
              out |-> amount_out])

\* lines 104-248, once the funding update and the quote have succeeded
leverage_swap_apply(p, lamports, vault, user, amount_in, min_amount_out, leverage, nonce, is_sol_to_y, amount_out) ==
  LET x_before == p.effective_sol_reserve
      y_before == p.effective_token_reserve
      x_after == IF is_sol_to_y THEN x_before + amount_in
                 ELSE x_before - amount_out
      y_after == IF is_sol_to_y THEN y_before - amount_out
                 ELSE y_before + amount_in
      k_before == x_before * y_before
      k_after == x_after * y_after
      delta_k == k_before - k_after
      position == [open |-> TRUE, authority |-> user, is_long |-> is_sol_to_y,
                   collateral |-> amount_in, leverage |-> leverage,
                   size |-> amount_out, delta_k |-> delta_k, nonce |-> nonce,
                   entry_funding_accumulator |-> p.cumulative_funding_accumulator]
      p2 == IF is_sol_to_y
            THEN [p EXCEPT !.sol_reserve = @ + amount_in,
                           !.effective_sol_reserve = @ + amount_in,
                           !.effective_token_reserve = @ - amount_out,
                           !.total_delta_k_longs = @ + delta_k]
            ELSE [p EXCEPT !.token_reserve = @ + amount_in,
                           !.effective_token_reserve = @ + amount_in,
                           !.effective_sol_reserve = @ - amount_out,
                           !.total_delta_k_shorts = @ + delta_k]
  IN IF x_after < 0 \/ y_after < 0 THEN Err("MathUnderflow")
     ELSE IF k_before < k_after THEN Err("MathUnderflow")
     ELSE IF ~(amount_out >= min_amount_out) THEN Err("SlippageToleranceExceeded")
     ELSE Ok([pool |-> p2, position |-> position,
              lamports |-> IF is_sol_to_y THEN lamports + amount_in ELSE lamports,
              vault |-> IF is_sol_to_y THEN vault ELSE vault + amount_in,
              out |-> amount_out])

handle_leverage_swap(p0, lamports, vault, user, amount_in, min_amount_out, leverage, nonce, is_sol_to_y) ==
  Only({ IF f.err # "Ok" THEN f
         ELSE IF amount_in = 0 THEN Err("ZeroSwapAmount")
         ELSE IF ~(leverage >= 10 /\ leverage <= 100) THEN Err("InvalidLeverage")
         ELSE Only({ IF quote.err # "Ok" THEN quote
                     ELSE leverage_swap_apply(f.val, lamports, vault, user,
                                              amount_in, min_amount_out, leverage,
                                              nonce, is_sol_to_y, quote.val)
                     : quote \in {calculate_output(f.val,
                                    (amount_in * leverage) \div 10, is_sol_to_y)} })
         : f \in {update_funding_accumulators(p0, clock)} })

(***************************************************************************)
(* instructions/close_position.rs                                          *)
(***************************************************************************)
snap_total(total, p) ==
  LET effective_k == p.effective_sol_reserve * p.effective_token_reserve
      threshold == effective_k \div 10000
  IN IF total < threshold THEN 0 ELSE total

snap_effective_reserves(p) ==
  IF p.total_delta_k_longs = 0 /\ p.total_delta_k_shorts = 0
  THEN [p EXCEPT !.effective_sol_reserve = p.sol_reserve,
                 !.effective_token_reserve = p.token_reserve]
  ELSE p

\* close_payout that leaves the position's debt out of the numerator.
close_payout_without_debt(p, is_long, position_size, delta_k) ==
  LET x_e == p.effective_sol_reserve
      y_e == p.effective_token_reserve
      numerator == IF is_long THEN x_e * position_size ELSE position_size * y_e
      denominator == IF is_long THEN y_e + position_size ELSE x_e + position_size
  IN IF numerator = 0 THEN [payout |-> 0, is_liquidatable |-> TRUE]
     ELSE [payout |-> numerator \div denominator, is_liquidatable |-> FALSE]

\* (payout, is_liquidatable) of lines 96-152
close_payout(p, is_long, position_size, delta_k) ==
  LET x_e == p.effective_sol_reserve
      y_e == p.effective_token_reserve
      product_val == IF is_long THEN x_e * position_size ELSE position_size * y_e
      numerator == IF product_val <= delta_k THEN 0 ELSE product_val - delta_k
      denominator == IF is_long THEN y_e + position_size ELSE x_e + position_size
  IN IF numerator = 0 THEN [payout |-> 0, is_liquidatable |-> TRUE]
     ELSE [payout |-> numerator \div denominator, is_liquidatable |-> FALSE]

\* lines 154-293, with the effective size, the effective delta_k and the
\* payout already computed
close_position_settle(p, position, lamports, vault, position_size, delta_k, pay) ==
  LET user_output == pay.payout
      p1 == IF position.is_long
            THEN [p EXCEPT !.effective_token_reserve = @ + position_size,
                           !.effective_sol_reserve = @ - user_output,
                           !.sol_reserve = @ - user_output,
                           !.total_delta_k_longs = @ - delta_k]
            ELSE [p EXCEPT !.effective_sol_reserve = @ + position_size,
                           !.effective_token_reserve = @ - user_output,
                           !.token_reserve = @ - user_output,
                           !.total_delta_k_shorts = @ - delta_k]
      p2 == IF position.is_long
            THEN [p1 EXCEPT !.total_delta_k_longs = snap_total(@, p1)]
            ELSE [p1 EXCEPT !.total_delta_k_shorts = snap_total(@, p1)]
  IN IF ~(~pay.is_liquidatable /\ user_output > 0) THEN Err("PositionNotClosable")
     ELSE IF p1.effective_sol_reserve < 0 \/ p1.effective_token_reserve < 0
             \/ p1.sol_reserve < 0 \/ p1.token_reserve < 0
          THEN Err("MathOverflow")
     ELSE IF p1.total_delta_k_longs < 0 \/ p1.total_delta_k_shorts < 0
          THEN Err("MathUnderflow")
     ELSE IF position.is_long /\ lamports < user_output THEN Err("InsufficientFunds")
     ELSE IF ~position.is_long /\ vault < user_output THEN Err("TokenTransferFailed")
     ELSE Ok([pool |-> snap_effective_reserves(p2),
              lamports |-> IF position.is_long THEN lamports - user_output
                           ELSE lamports,
              vault |-> IF position.is_long THEN vault ELSE vault - user_output,
              out |-> user_output])

\* lines 71-152
close_position_amounts(p, position, lamports, vault) ==
  LET remaining_factor ==
        calculate_position_remaining_factor(p, position.entry_funding_accumulator).val
      position_size == (position.size * remaining_factor) \div PRECISION
      delta_k == (position.delta_k * remaining_factor) \div PRECISION
  IN Only({ close_position_settle(p, position, lamports, vault,
                                  position_size, delta_k, pay)
            : pay \in {close_payout(p, position.is_long, position_size, delta_k)} })

handle_close_position(p0, position, lamports, vault) ==
  Only({ IF f.err # "Ok" THEN f
         ELSE close_position_amounts(f.val, position, lamports, vault)
         : f \in {update_funding_accumulators(p0, clock)} })

\* lines 30-43: the position account must exist, sit at the address derived
\* from the signer and the nonce, and name the signer as its authority
ClosePosition_accounts(user, key, position) ==
  IF ~position.open THEN Err("AccountNotInitialized")
  ELSE IF key[1] # user THEN Err("ConstraintSeeds")
  ELSE IF position.authority # user THEN Err("InvalidPosition")
  ELSE Ok(position)

close_position(p0, user, key, position, lamports, vault) ==
  IF ClosePosition_accounts(user, key, position).err # "Ok"
  THEN ClosePosition_accounts(user, key, position)
  ELSE handle_close_position(p0, position, lamports, vault)

(***************************************************************************)
(* Real-reserve bookkeeping of a physical movement: every lamport or token *)
(* that enters or leaves the pool is recorded in sol_reserve and           *)
(* token_reserve in the same transition.                                   *)
(***************************************************************************)
record_real_reserves(p, d_sol, d_token) ==
  [p EXCEPT !.sol_reserve = @ + d_sol, !.token_reserve = @ + d_token]

(***************************************************************************)
(* instructions/swap.rs                                                    *)
(***************************************************************************)
\* lines 100-187, once the funding update and the quote have succeeded
swap_apply(p, lamports, vault, amount_in, min_amount_out, is_sol_to_y, amount_out) ==
  LET p1 == IF is_sol_to_y
            THEN [p EXCEPT !.effective_sol_reserve = @ + amount_in,
                           !.effective_token_reserve = @ - amount_out]
            ELSE [p EXCEPT !.effective_token_reserve = @ + amount_in,
                           !.effective_sol_reserve = @ - amount_out]
      p2 == IF is_sol_to_y
            THEN record_real_reserves(p1, amount_in, 0 - amount_out)
            ELSE record_real_reserves(p1, 0 - amount_out, amount_in)
  IN IF ~(amount_out >= min_amount_out) THEN Err("SlippageToleranceExceeded")
     ELSE IF is_sol_to_y /\ vault < amount_out THEN Err("TokenTransferFailed")
     ELSE IF ~is_sol_to_y /\ lamports < amount_out THEN Err("MathOverflow")
     ELSE IF p1.effective_sol_reserve < 0 \/ p1.effective_token_reserve < 0
          THEN Err("MathUnderflow")
     ELSE Ok([pool |-> p2,
              lamports |-> IF is_sol_to_y THEN lamports + amount_in
                           ELSE lamports - amount_out,
              vault |-> IF is_sol_to_y THEN vault - amount_out
                        ELSE vault + amount_in,
              out |-> amount_out])

\* lines 85-98: the quote on the pricing reserves
swap_quote(p, amount_in, is_sol_to_y) ==
  IF is_sol_to_y
  THEN calculate_swap_x_to_y(p.effective_sol_reserve,
                             p.effective_token_reserve, amount_in)
  ELSE calculate_swap_y_to_x_plain(amount_in, p.effective_sol_reserve,
                                   p.effective_token_reserve)

handle_swap(p0, lamports, vault, amount_in, min_amount_out, is_sol_to_y) ==
  Only({ IF f.err # "Ok" THEN f
         ELSE IF amount_in = 0 THEN Err("ZeroSwapAmount")
         ELSE Only({ IF quote.err # "Ok" THEN quote
                     ELSE swap_apply(f.val, lamports, vault, amount_in,
                                     min_amount_out, is_sol_to_y, quote.val)
                     : quote \in {swap_quote(f.val, amount_in, is_sol_to_y)} })
         : f \in {update_funding_accumulators(p0, clock)} })

(***************************************************************************)
(* instructions/liquidate.rs                                               *)
(***************************************************************************)
\* lines 72-105: the position's size and delta_k after amortization
liquidate_effective(p, position) ==
  LET index_diff == p.cumulative_funding_accumulator
                      - position.entry_funding_accumulator
      position_size_reduction == (position.size * index_diff) \div INDEX_PRECISION
      delta_k_reduction == (position.delta_k * index_diff) \div INDEX_PRECISION
  IN IF index_diff < 0 THEN Err("MathUnderflow")
     ELSE IF position.size < position_size_reduction THEN Err("MathUnderflow")
     ELSE IF position.delta_k < delta_k_reduction THEN Err("MathUnderflow")
     ELSE Ok([size |-> position.size - position_size_reduction,
              delta_k |-> position.delta_k - delta_k_reduction])

\* lines 111-174: expected payout of a close
expected_payout(total_x, total_y, is_long, position_size, delta_k) ==
  LET product_val == IF is_long THEN total_x * position_size
                     ELSE position_size * total_y
      denominator == IF is_long THEN total_y + position_size
                     ELSE total_x + position_size
  IN IF product_val <= delta_k THEN 0
     ELSE (product_val - delta_k) \div denominator

\* lines 133-140 and 164-171: (delta_k * 1.05) / current reserve
liquidation_threshold(total_x, total_y, is_long, delta_k) ==
  LET r == IF is_long THEN total_x ELSE total_y
  IN IF r = 0 THEN Err("MathOverflow")
     ELSE Ok(((delta_k * 105) \div 100) \div r)

\* lines 199-219: ceil(delta_k / current reserve)
restore_amount(total_x, total_y, is_long, delta_k) ==
  LET r == IF is_long THEN total_x ELSE total_y
  IN IF delta_k + r < 1 THEN Err("MathUnderflow")
     ELSE IF r = 0 THEN Err("MathOverflow")
     ELSE Ok((delta_k + r - 1) \div r)

saturating_sub(a, b) == IF a < b THEN 0 ELSE a - b

\* lines 176-335, with the effective size and delta_k already computed
liquidate_settle(p, position, lamports, vault, position_size, delta_k) ==
  LET total_x == p.effective_sol_reserve
      total_y == p.effective_token_reserve
      payout == expected_payout(total_x, total_y, position.is_long,
                                position_size, delta_k)
      threshold == liquidation_threshold(total_x, total_y, position.is_long, delta_k)
      funding_fees_paid == position.delta_k - delta_k
      restore == restore_amount(total_x, total_y, position.is_long, delta_k)
      liquidator_reward == position_size - restore.val
      p1 == IF position.is_long
            THEN [p EXCEPT
                    !.effective_token_reserve = @ + restore.val - liquidator_reward,
                    !.unrealized_funding_fees = saturating_sub(@, funding_fees_paid),
                    !.total_delta_k_longs = saturating_sub(@, position.delta_k)]
            ELSE [p EXCEPT
                    !.effective_sol_reserve = @ + restore.val - liquidator_reward,
                    !.unrealized_funding_fees = saturating_sub(@, funding_fees_paid),
                    !.total_delta_k_shorts = saturating_sub(@, position.delta_k)]
      p2 == IF position.is_long
            THEN record_real_reserves(p1, 0, 0 - liquidator_reward)
            ELSE record_real_reserves(p1, 0 - liquidator_reward, 0)
  IN IF threshold.err # "Ok" THEN threshold
     ELSE IF ~(payout <= threshold.val) THEN Err("PositionNotLiquidatable")
     ELSE IF restore.err # "Ok" THEN restore
     ELSE IF position_size < restore.val THEN Err("MathUnderflow")
     ELSE IF p1.effective_sol_reserve < 0 \/ p1.effective_token_reserve < 0
          THEN Err("MathUnderflow")
     ELSE IF position.is_long /\ vault < liquidator_reward
          THEN Err("TokenTransferFailed")
     ELSE IF ~position.is_long /\ lamports < liquidator_reward
          THEN Err("InsufficientFunds")
     ELSE Ok([pool |-> p2,
              lamports |-> IF position.is_long THEN lamports
                           ELSE lamports - liquidator_reward,
              vault |-> IF position.is_long THEN vault - liquidator_reward
                        ELSE vault,
              out |-> liquidator_reward])

handle_liquidate(p0, position, lamports, vault) ==
  Only({ IF f.err # "Ok" THEN f
         ELSE Only({ IF eff.err # "Ok" THEN eff
                     ELSE liquidate_settle(f.val, position, lamports, vault,
                                           eff.val.size, eff.val.delta_k)
                     : eff \in {liquidate_effective(f.val, position)} })
         : f \in {update_funding_accumulators(p0, clock)} })

\* lines 34-47: the position account must exist at the address derived from
\* position_owner and the nonce, and name position_owner as its authority
\* Liquidate_accounts without the check that the record exists.
Liquidate_accounts_unchecked(key, position) == Ok(position)

Liquidate_accounts(key, position) ==
  IF ~position.open THEN Err("AccountNotInitialized")
  ELSE IF position.authority # key[1] THEN Err("InvalidPosition")
  ELSE Ok(position)

liquidate(p0, key, position, lamports, vault) ==
  IF Liquidate_accounts(key, position).err # "Ok"
  THEN Liquidate_accounts(key, position)
  ELSE handle_liquidate(p0, position, lamports, vault)

(***************************************************************************)
(* The cluster clock (Clock::get().unix_timestamp) only moves forward.     *)
(***************************************************************************)
Tick ==
  /\ clock + ClockStep <= MaxClock
  /\ clock' = clock + ClockStep
  /\ UNCHANGED <<bonding_curve, pool, positions, pool_lamports, vault_tokens,
                 last, history, nops>>

(***************************************************************************)
(* The AMM instructions.  The pool account exists from launch_on_curve on. *)
(***************************************************************************)
SwapAmounts == {0, 50}

Swap ==
  /\ bonding_curve.status # "Uninitialized"
  /\ nops < MaxOps
  /\ FundingInRange(pool)
  /\ \E is_sol_to_y \in BOOLEAN, amount_in \in SwapAmounts :
       \E r \in {handle_swap(pool, pool_lamports, vault_tokens, amount_in, 0,
                            is_sol_to_y)} :
          /\ IF r.err = "Ok"
             THEN /\ pool' = r.val.pool
                  /\ pool_lamports' = r.val.lamports
                  /\ vault_tokens' = r.val.vault
             ELSE UNCHANGED <<pool, pool_lamports, vault_tokens>>
          /\ last' = [NoLast EXCEPT
                        !.op = "swap", !.err = r.err, !.at = clock, !.arg = amount_in,
                        !.is_sol = is_sol_to_y,
                        !.out = IF r.err = "Ok" THEN r.val.out ELSE 0,
                        !.pre = pool]
  /\ nops' = nops + 1
  /\ UNCHANGED <<bonding_curve, positions, clock, history>>

LeverageAmounts == {10, 25}
Leverages == {10, 100}

\* <<position key, is_sol_to_y, amount_in, leverage, min_amount_out>> of the
\* leverage_swap calls made: every accepted combination, and calls with a
\* zero amount, a leverage on either side of 10..100 and a minimum output no
\* pool can pay.
LeverageCalls ==
  (Keys \X BOOLEAN \X LeverageAmounts \X Leverages \X {0})
    \cup {<<<<"alice", 0>>, TRUE, 0, 101, 0>>,
          <<<<"bob", 0>>, FALSE, 10, 9, 0>>,
          <<<<"alice", 0>>, TRUE, 10, 101, 0>>,
          <<<<"alice", 0>>, FALSE, 10, 10, 1000>>}

LeverageSwap ==
  /\ bonding_curve.status # "Uninitialized"
  /\ nops < MaxOps
  /\ FundingInRange(pool)
  /\ \E call \in LeverageCalls :
       \E key \in {call[1]}, is_sol_to_y \in {call[2]}, amount_in \in {call[3]}, leverage \in {call[4]}, min_amount_out \in {call[5]} :
       \E r \in {handle_leverage_swap(pool, pool_lamports, vault_tokens, key[1],
                                     amount_in, min_amount_out, leverage, key[2], is_sol_to_y)} :
          /\ IF r.err = "Ok"
             THEN /\ pool' = r.val.pool
                  /\ positions' = [positions EXCEPT ![key] = r.val.position]
                  /\ pool_lamports' = r.val.lamports
                  /\ vault_tokens' = r.val.vault
                  /\ history' = [history EXCEPT ![key].opened = @ + 1]
             ELSE UNCHANGED <<pool, positions, pool_lamports, vault_tokens,
                              history>>
          /\ last' = [NoLast EXCEPT
                        !.op = "leverage_swap", !.err = r.err, !.at = clock, !.key = key,
                        !.arg = amount_in, !.leverage = leverage,
                        !.min_out = min_amount_out,
                        !.is_sol = is_sol_to_y,
                        !.out = IF r.err = "Ok" THEN r.val.out ELSE 0,
                        !.pre = pool, !.prepos = positions[key]]
  /\ nops' = nops + 1
  /\ UNCHANGED <<bonding_curve, clock>>

\* The instruction before this one opened the position under key, in the
\* same second, at a moment when no position record existed.
JustOpened(key) ==
  /\ last.op = "leverage_swap" /\ last.err = "Ok" /\ last.key = key
  /\ last.at = clock
  /\ ~last.prepos.open
  /\ \A k \in Keys \ {key} : ~positions[k].open

ClosePosition ==
  /\ bonding_curve.status # "Uninitialized"
  /\ nops < MaxOps
  /\ FundingInRange(pool)
  /\ \E user \in Users, key \in Keys :
       \E r \in {close_position(pool, user, key, positions[key], pool_lamports,
                               vault_tokens)} :
          /\ IF r.err = "Ok"
             THEN /\ pool' = r.val.pool
                  /\ positions' = [positions EXCEPT ![key] = NoPosition]
                  /\ pool_lamports' = r.val.lamports
                  /\ vault_tokens' = r.val.vault
                  /\ history' = [history EXCEPT ![key].settled = @ + 1]
             ELSE UNCHANGED <<pool, positions, pool_lamports, vault_tokens,
                              history>>
          /\ last' = [NoLast EXCEPT
                        !.op = "close_position", !.err = r.err, !.key = key,
                        !.signer = user,
                        !.out = IF r.err = "Ok" THEN r.val.out ELSE 0,
                        !.pre = pool, !.prepos = positions[key],
                        !.at = clock,
                        !.just_opened = JustOpened(key),
                        !.open_amount = IF JustOpened(key) THEN last.arg ELSE 0,
                        !.open_pre = IF JustOpened(key) THEN last.pre
                                     ELSE ZeroPool]
  /\ nops' = nops + 1
  /\ UNCHANGED <<bonding_curve, clock>>

Liquidate ==
  /\ bonding_curve.status # "Uninitialized"
  /\ nops < MaxOps
  /\ FundingInRange(pool)
  /\ \E liquidator \in Users, key \in Keys :
       \E r \in {liquidate(pool, key, positions[key], pool_lamports,
                          vault_tokens)} :
          /\ IF r.err = "Ok"
             THEN /\ pool' = r.val.pool
                  /\ positions' = [positions EXCEPT ![key] = NoPosition]
                  /\ pool_lamports' = r.val.lamports
                  /\ vault_tokens' = r.val.vault
                  /\ history' = [history EXCEPT ![key].settled = @ + 1]
             ELSE UNCHANGED <<pool, positions, pool_lamports, vault_tokens,
                              history>>
          /\ last' = [NoLast EXCEPT
                        !.op = "liquidate", !.err = r.err, !.at = clock, !.key = key,
                        !.signer = liquidator,
                        !.out = IF r.err = "Ok" THEN r.val.out ELSE 0,
                        !.pre = pool, !.prepos = positions[key]]
  /\ nops' = nops + 1
  /\ UNCHANGED <<bonding_curve, clock>>

(***************************************************************************)
(* whiplash/src/instructions/close_position.rs: the pool program's own     *)
(* close_position.  It reads the position and the reserves as they stand   *)
(* (lines 62-81), without a funding update, and settles the full size.     *)
(* lamports + virtual_sol_amount and token_y_amount + virtual_token_y_     *)
(* amount are the effective reserves; lamports and token_y_amount are the  *)
(* real ones.  The leveraged tokens of a position stay in the vault, so    *)
(* the transfer out of the position's token account moves nothing.         *)
(***************************************************************************)
whiplash_close_settle(p, position, lamports, vault, pay) ==
  LET user_output == pay.payout
      p1 == IF position.is_long
            THEN [p EXCEPT !.token_reserve = @ + position.size,
                           !.effective_token_reserve = @ + position.size,
                           !.sol_reserve = @ - user_output,
                           !.effective_sol_reserve = @ - user_output]
            ELSE [p EXCEPT !.sol_reserve = @ + position.size,
                           !.effective_sol_reserve = @ + position.size,
                           !.token_reserve = @ - user_output,
                           !.effective_token_reserve = @ - user_output]
  IN IF ~(~pay.is_liquidatable /\ user_output > 0) THEN Err("PositionNotClosable")
     ELSE IF p1.sol_reserve < 0 \/ p1.token_reserve < 0 THEN Err("MathOverflow")
     ELSE IF position.is_long /\ lamports < user_output THEN Err("InsufficientFunds")
     ELSE IF ~position.is_long /\ vault < user_output THEN Err("TokenTransferFailed")
     ELSE Ok([pool |-> p1,
              lamports |-> IF position.is_long THEN lamports - user_output
                           ELSE lamports,
              vault |-> IF position.is_long THEN vault ELSE vault - user_output,
              out |-> user_output])

whiplash_handle_close_position(p, position, lamports, vault) ==
  Only({ whiplash_close_settle(p, position, lamports, vault, pay)
         : pay \in {close_payout(p, position.is_long, position.size,
                                 position.delta_k)} })

whiplash_close_position(p0, user, key, position, lamports, vault) ==
  IF ClosePosition_accounts(user, key, position).err # "Ok"
  THEN ClosePosition_accounts(user, key, position)
  ELSE whiplash_handle_close_position(p0, position, lamports, vault)

WhiplashClosePosition ==
  /\ bonding_curve.status # "Uninitialized"
  /\ nops < MaxOps
  /\ FundingInRange(pool)
  /\ \E user \in Users, key \in Keys :
       \E r \in {whiplash_close_position(pool, user, key, positions[key],
                                        pool_lamports, vault_tokens)} :
          /\ IF r.err = "Ok"
             THEN /\ pool' = r.val.pool
                  /\ positions' = [positions EXCEPT ![key] = NoPosition]
                  /\ pool_lamports' = r.val.lamports
                  /\ vault_tokens' = r.val.vault
                  /\ history' = [history EXCEPT ![key].settled = @ + 1]
             ELSE UNCHANGED <<pool, positions, pool_lamports, vault_tokens,
                              history>>
          /\ last' = [NoLast EXCEPT
                        !.op = "whiplash_close_position", !.err = r.err,
                        !.key = key, !.signer = user,
                        !.out = IF r.err = "Ok" THEN r.val.out ELSE 0,
                        !.pre = pool, !.prepos = positions[key],
                        !.at = clock]
  /\ nops' = nops + 1
  /\ UNCHANGED <<bonding_curve, clock>>

Next ==
  \/ LaunchOnCurve
  \/ SwapOnCurve
  \/ Swap
  \/ LeverageSwap
  \/ ClosePosition
  \/ Liquidate
  \/ Tick

Spec == Init /\ [][Next]_vars

\* The curve program's instructions together with the pool program's own
\* close_position.
NextWithWhiplashClose ==
  \/ Next
  \/ WhiplashClosePosition

SpecWithWhiplashClose == Init /\ [][NextWithWhiplashClose]_vars

(***************************************************************************)
(* Properties.                                                             *)
(***************************************************************************)
Graduated == bonding_curve.status = "Graduated"
Active == bonding_curve.status = "Active"
Succeeded(op) == last.op = op /\ last.err = "Ok"
NoOpenPosition == \A k \in Keys : ~positions[k].open

\* C1: in every reachable state the SOL physically held by the pool equals
\* the recorded amount: sol_raised_on_curve while the curve is Active,
\* sol_reserve once it has graduated.
C1_PhysicalSolEqualsRecorded ==
  /\ Active => pool_lamports = bonding_curve.sol_raised_on_curve
  /\ Graduated => pool_lamports = pool.sol_reserve

\* The pool an instruction recorded in "last" started from, after the
\* funding update its handler makes first.
FundedPre == update_funding_accumulators(last.pre, last.at)

Product(p) == p.effective_sol_reserve * p.effective_token_reserve

\* C1 (state reached by the flaw): a capped buy has just graduated the
\* curve and the pool holds fewer lamports than sol_reserve records.
C1_CappedBuyLeavesShortfall ==
  /\ Succeeded("curve_buy") /\ Graduated /\ last.refund > 0
  /\ pool_lamports = pool.sol_reserve - last.refund

C3_OpenThenCloseRestores ==
  (Succeeded("close_position") /\ last.just_opened) =>
     /\ last.out \in {last.open_amount - 1, last.open_amount}
     /\ pool.total_delta_k_longs = last.open_pre.total_delta_k_longs
     /\ pool.total_delta_k_shorts = last.open_pre.total_delta_k_shorts
     /\ pool.total_delta_k_longs = 0 /\ pool.total_delta_k_shorts = 0
     /\ pool.effective_sol_reserve = last.open_pre.effective_sol_reserve
     /\ pool.effective_token_reserve = last.open_pre.effective_token_reserve
     /\ pool.sol_reserve = last.open_pre.sol_reserve
     /\ pool.token_reserve = last.open_pre.token_reserve

\* C3 (state reached by the flaw): such a close paid amount_in back, and
\* the effective SOL reserve it left differs from the one before the open,
\* because the pool had no debt but unequal effective and real reserves.
C3_CloseLeavesOtherReserves ==
  /\ Succeeded("close_position") /\ last.just_opened
  /\ last.out = last.open_amount
  /\ last.open_pre.total_delta_k_longs + last.open_pre.total_delta_k_shorts = 0
  /\ pool.effective_sol_reserve # last.open_pre.effective_sol_reserve

\* C4: on a graduated pool, whenever both delta_k totals are zero the
\* effective reserves equal the real reserves.
C4_ZeroDebtMeansSnapped ==
  (Graduated /\ pool.total_delta_k_longs = 0 /\ pool.total_delta_k_shorts = 0)
    => /\ pool.effective_sol_reserve = pool.sol_reserve
       /\ pool.effective_token_reserve = pool.token_reserve

\* C4 (state reached by the flaw): a liquidation removed the last debt and
\* left the effective SOL reserve different from the real one.
C4_LiquidationLeavesUnsnapped ==
  /\ Succeeded("liquidate") /\ Graduated
  /\ pool.total_delta_k_longs = 0 /\ pool.total_delta_k_shorts = 0
  /\ pool.effective_sol_reserve # pool.sol_reserve

C6_PositionImmutable ==
  [][\A k \in Keys : (positions[k].open /\ positions'[k].open)
                        => positions'[k] = positions[k]]_vars

\* C6 (state reached by the flaw): a second leverage_swap with the same owner
\* and nonce succeeded on an open record and replaced its contents.
C6_SecondOpenOverwrote ==
  /\ Succeeded("leverage_swap") /\ last.prepos.open
  /\ positions[last.key].open
  /\ positions[last.key].size # last.prepos.size

Settles(op) == op \in {"close_position", "liquidate"}

PreLamports ==
  IF last.err = "Ok" /\ last.is_sol THEN pool_lamports - last.arg
  ELSE pool_lamports
PreVault ==
  IF last.err = "Ok" /\ ~last.is_sol THEN vault_tokens - last.arg
  ELSE vault_tokens
SpotSwapOfLast ==
  handle_swap(last.pre, PreLamports, PreVault, last.arg, 0, last.is_sol)

\* C8: leverage_swap with leverage = 10 behaves as a spot swap of amount_in:
\* whenever the spot swap of amount_in succeeds from the same pool state, the
\* open succeeds, its size is the spot output and its delta_k is 0.
C8_Leverage10IsSpot ==
  (/\ last.op = "leverage_swap" /\ last.leverage = 10
   /\ clock = last.at
   /\ SpotSwapOfLast.err = "Ok")
    => /\ last.err = "Ok"
       /\ positions[last.key].size = SpotSwapOfLast.val.out
       /\ positions[last.key].delta_k = 0

\* C8 (state reached by the flaw): the spot swap would succeed, but the open
\* with leverage = 10 failed on the subtraction k_before - k_after.
C8_Leverage10OpenFails ==
  /\ last.op = "leverage_swap" /\ last.leverage = 10 /\ clock = last.at
  /\ SpotSwapOfLast.err = "Ok"
  /\ last.err = "MathUnderflow"

\* The effective size and delta_k liquidate computes for the position
\* recorded in "last", and the notions built on them.
EffOfLast == liquidate_effective(FundedPre.val, last.prepos).val
LiquidateReached ==
  /\ last.op = "liquidate" /\ last.prepos.open
  /\ FundedPre.err = "Ok"
  /\ liquidate_effective(FundedPre.val, last.prepos).err = "Ok"
Underwater ==
  IF last.prepos.is_long
  THEN FundedPre.val.effective_sol_reserve * EffOfLast.size <= EffOfLast.delta_k
  ELSE EffOfLast.size * FundedPre.val.effective_token_reserve <= EffOfLast.delta_k
RemainingFactorOfLast ==
  calculate_position_remaining_factor(
    FundedPre.val, last.prepos.entry_funding_accumulator).val
ClosePayoutOfLast ==
  close_payout(FundedPre.val, last.prepos.is_long,
               EffOfLast.size, EffOfLast.delta_k).payout
GrossValueOfLast ==
  IF last.prepos.is_long
  THEN calculate_swap_y_to_x_plain(EffOfLast.size,
         FundedPre.val.effective_sol_reserve,
         FundedPre.val.effective_token_reserve).val
  ELSE calculate_swap_x_to_y(FundedPre.val.effective_sol_reserve,
         FundedPre.val.effective_token_reserve, EffOfLast.size).val

\* C9: liquidate on an underwater position whose remaining factor is still
\* positive fails with PositionNotLiquidatable and leaves the position open
\* and the pool unchanged.
C9_UnderwaterNotLiquidatable ==
  (LiquidateReached /\ Underwater /\ RemainingFactorOfLast > 0)
    => /\ last.err = "PositionNotLiquidatable"
       /\ positions[last.key] = last.prepos
       /\ pool = last.pre

\* C9 (state reached by the flaw): liquidate on such a position failed, but
\* with MathUnderflow (the reward subtraction), not PositionNotLiquidatable.
C9_UnderwaterFailsOtherwise ==
  /\ LiquidateReached /\ Underwater /\ RemainingFactorOfLast > 0
  /\ last.err = "MathUnderflow"

\* C10: liquidate succeeds only when the position's close payout is at most
\* 5% of the gross value of its effective size.
C10_LiquidateOnlyBelowFivePercent ==
  (LiquidateReached /\ last.err = "Ok")
    => ClosePayoutOfLast * 100 <= 5 * GrossValueOfLast

\* C10 (state reached by the flaw): a liquidation that succeeded on a
\* position whose close payout exceeded 5% of its gross value.
C10_LiquidatedAboveFivePercent ==
  /\ LiquidateReached /\ last.err = "Ok"
  /\ ClosePayoutOfLast * 100 > 5 * GrossValueOfLast

\* The spot price of a pool, as graduate_to_amm computes the first ema_price.
SpotPrice(p) ==
  (p.effective_sol_reserve * PRICE_PRECISION) \div p.effective_token_reserve
AbsDiff(a, b) == IF a < b THEN b - a ELSE a - b
\* |spot - ema| > ema * liquidation_divergence_threshold / 100
PriceDiverged(p) ==
  /\ p.effective_token_reserve > 0
  /\ AbsDiff(SpotPrice(p), p.ema_price) * 100
    > p.ema_price * p.liquidation_divergence_threshold

\* C11: liquidate on a position, in a state where the spot price differs
\* from ema_price by more than ema_price * liquidation_divergence_threshold
\* / 100, fails with LiquidationPriceManipulation and liquidates nothing.
C11_NoLiquidationWhenPriceDiverged ==
  (LiquidateReached /\ PriceDiverged(FundedPre.val))
    => /\ last.err = "LiquidationPriceManipulation"
       /\ positions[last.key] = last.prepos
       /\ pool = last.pre

\* C11 (state reached by the flaw): a liquidation succeeded although the
\* spot price had moved away from ema_price by more than the threshold.
C11_LiquidatedWhilePriceDiverged ==
  /\ LiquidateReached /\ last.err = "Ok"
  /\ PriceDiverged(FundedPre.val)
  /\ ~positions[last.key].open

\* What close_position would do with the position that the liquidate
\* recorded in "last" acted on, from the same pool.
PreLiquidateLamports ==
  IF last.err = "Ok" /\ ~last.prepos.is_long THEN pool_lamports + last.out
  ELSE pool_lamports
PreLiquidateVault ==
  IF last.err = "Ok" /\ last.prepos.is_long THEN vault_tokens + last.out
  ELSE vault_tokens
CloseOfLast ==
  close_position_amounts(FundedPre.val, last.prepos, PreLiquidateLamports,
                         PreLiquidateVault)

\* C12: a successful liquidate settles the position exactly as a close would
\* in the same state: the liquidator receives the close payout, in the asset
\* the owner would have received, and the effective reserves, the real
\* reserves and the delta_k totals end where close_position would leave them.
C12_LiquidateSettlesAsClose ==
  (LiquidateReached /\ last.err = "Ok")
    => /\ CloseOfLast.err = "Ok"
       /\ last.out = CloseOfLast.val.out
       /\ pool_lamports = CloseOfLast.val.lamports
       /\ vault_tokens = CloseOfLast.val.vault
       /\ pool.effective_sol_reserve = CloseOfLast.val.pool.effective_sol_reserve
       /\ pool.effective_token_reserve = CloseOfLast.val.pool.effective_token_reserve
       /\ pool.sol_reserve = CloseOfLast.val.pool.sol_reserve
       /\ pool.token_reserve = CloseOfLast.val.pool.token_reserve
       /\ pool.total_delta_k_longs = CloseOfLast.val.pool.total_delta_k_longs
       /\ pool.total_delta_k_shorts = CloseOfLast.val.pool.total_delta_k_shorts

\* C12 (state reached by the flaw): a liquidation of a short paid the
\* liquidator in SOL an amount other than the close payout, where the close
\* would have paid tokens.
C12_LiquidatorPaidOtherwise ==
  /\ LiquidateReached /\ last.err = "Ok" /\ ~last.prepos.is_long
  /\ CloseOfLast.err = "Ok"
  /\ last.out > 0 /\ last.out # CloseOfLast.val.out
  /\ pool_lamports < CloseOfLast.val.lamports
  /\ vault_tokens > CloseOfLast.val.vault

\* C13: leverage_swap fails with ExcessiveLeverage whenever the open would
\* make the two delta_k totals reach or exceed the effective k; so in every
\* state of a graduated pool the outstanding delta_k is below
\* effective_sol_reserve * effective_token_reserve, and no instruction fails
\* on the guard.
C13_TotalDeltaKBelowEffectiveK ==
  /\ Graduated => total_delta_k(pool) < Product(pool)
  /\ (last.op # "leverage_swap") => last.err # "ExcessiveLeverage"

\* C13 (state reached by the flaw): a leverage_swap succeeded and left the
\* outstanding delta_k at or above the effective k.
C13_OpenedBeyondEffectiveK ==
  /\ Succeeded("leverage_swap") /\ Graduated
  /\ positions[last.key].delta_k > 0
  /\ total_delta_k(pool) >= Product(pool)

\* The leveraged input of the leverage_swap recorded in "last", and the
\* effective reserves of its input and output side before and after it.
TotalInputOfLast == (last.arg * last.leverage) \div 10
InputReserve(p) ==
  IF last.is_sol THEN p.effective_sol_reserve ELSE p.effective_token_reserve
OutputReserve(p) ==
  IF last.is_sol THEN p.effective_token_reserve ELSE p.effective_sol_reserve

\* The scenario x = y = 10_000, long, amount_in = 100, leverage = 25.
ExamplePool ==
  [ZeroPool EXCEPT !.sol_reserve = 10000, !.token_reserve = 10000,
                   !.effective_sol_reserve = 10000,
                   !.effective_token_reserve = 10000]
ExampleOpen ==
  handle_leverage_swap(ExamplePool, 10000, 10000, "alice", 100, 0, 25, 0, TRUE)

\* C14: a leverage open moves the effective reserves to the point (x', y')
\* that a spot swap of total_input = amount_in * leverage / 10 reaches and
\* stores delta_k = x*y - x'*y' for that point; for x = y = 10_000,
\* amount_in = 100, leverage = 25 the output is 244 and delta_k is
\* 10_000*10_000 - 10_250*9_756.
C14_OpenMovesToSpotPoint ==
  /\ Succeeded("leverage_swap")
       => /\ InputReserve(pool) = InputReserve(FundedPre.val) + TotalInputOfLast
          /\ OutputReserve(pool) = OutputReserve(FundedPre.val) - last.out
          /\ positions[last.key].delta_k
               = Product(FundedPre.val)
                   - (InputReserve(FundedPre.val) + TotalInputOfLast)
                       * (OutputReserve(FundedPre.val) - last.out)
  /\ ExampleOpen.err = "Ok"
  /\ ExampleOpen.val.out = 244
  /\ ExampleOpen.val.position.delta_k = 10000 * 10000 - 10250 * 9756

\* C14 (state reached by the flaw): an open with leverage 100 added only
\* amount_in, a tenth of total_input, to the effective reserve of its input
\* side, and stored the delta_k of that point.
C14_OpenMovedByAmountIn ==
  /\ Succeeded("leverage_swap") /\ last.leverage = 100
  /\ InputReserve(pool) = InputReserve(FundedPre.val) + last.arg
  /\ OutputReserve(pool) = OutputReserve(FundedPre.val) - last.out
  /\ positions[last.key].delta_k = Product(FundedPre.val) - Product(pool)
  /\ ExampleOpen.val.out = 243
  /\ ExampleOpen.val.position.delta_k = 10000 * 10000 - 10100 * 9757

SideTotal(p) ==
  IF last.is_sol THEN p.total_delta_k_longs ELSE p.total_delta_k_shorts
OtherSideTotal(p) ==
  IF last.is_sol THEN p.total_delta_k_shorts ELSE p.total_delta_k_longs

\* C15: after every successful leverage open the delta_k stored in the
\* position equals the effective k immediately before the open minus the
\* effective k of the reserves the pool holds after it, is at most the k
\* before, and the delta_k total of the position's side has grown by exactly
\* that value.
C15_StoredDeltaKIsProductDrop ==
  Succeeded("leverage_swap")
    => /\ positions[last.key].delta_k = Product(FundedPre.val) - Product(pool)
       /\ positions[last.key].delta_k >= 0
       /\ positions[last.key].delta_k <= Product(FundedPre.val)
       /\ SideTotal(pool) = SideTotal(FundedPre.val) + positions[last.key].delta_k

\* C15 (witness): an open with a positive delta_k on a side that already
\* carried debt.
C15_OpenOnIndebtedSide ==
  /\ Succeeded("leverage_swap")
  /\ positions[last.key].delta_k > 0
  /\ SideTotal(FundedPre.val) > 0
  /\ SideTotal(pool) > SideTotal(FundedPre.val)

InputRealReserve(p) == IF last.is_sol THEN p.sol_reserve ELSE p.token_reserve
OutputRealReserve(p) == IF last.is_sol THEN p.token_reserve ELSE p.sol_reserve

C18_EffectiveReservesPositive ==
  Graduated => /\ pool.effective_sol_reserve > 0
               /\ pool.effective_token_reserve > 0

\* C18 (state reached by the flaw): a liquidation paid out of the effective
\* token reserve a reward equal to that reserve plus the restored amount,
\* and left it at zero.
C18_LiquidationEmptiedReserve ==
  /\ Graduated /\ LiquidateReached /\ last.err = "Ok" /\ last.prepos.is_long
  /\ last.pre.effective_token_reserve > 0
  /\ pool.effective_token_reserve = 0

\* The close_position recorded in "last" reached the payout computation: the
\* account constraints and the funding update passed.
CloseReached ==
  /\ last.op = "close_position" /\ last.prepos.open
  /\ last.signer = last.prepos.authority /\ last.key[1] = last.signer
  /\ FundedPre.err = "Ok"
\* eff_size = size * f / PRECISION and eff_delta_k = delta_k * f / PRECISION
CloseEffSize == (last.prepos.size * RemainingFactorOfLast) \div PRECISION
CloseEffDeltaK == (last.prepos.delta_k * RemainingFactorOfLast) \div PRECISION
CloseNumerator ==
  IF last.prepos.is_long
  THEN FundedPre.val.effective_sol_reserve * CloseEffSize - CloseEffDeltaK
  ELSE FundedPre.val.effective_token_reserve * CloseEffSize - CloseEffDeltaK
CloseDenominator ==
  IF last.prepos.is_long
  THEN FundedPre.val.effective_token_reserve + CloseEffSize
  ELSE FundedPre.val.effective_sol_reserve + CloseEffSize

\* C17: every successful close_position pays exactly
\* floor((x_e * eff_size - eff_delta_k) / (y_e + eff_size)) for a long and
\* floor((y_e * eff_size - eff_delta_k) / (x_e + eff_size)) for a short, on
\* the current effective reserves; when the numerator is <= 0 the close
\* fails with PositionNotClosable, pays nothing and changes nothing.
C17_ClosePaysFormula ==
  /\ Succeeded("close_position")
       => /\ CloseNumerator > 0
          /\ last.out = CloseNumerator \div CloseDenominator
  /\ (CloseReached /\ CloseNumerator <= 0)
       => /\ last.err = "PositionNotClosable"
          /\ last.out = 0
          /\ pool = last.pre
          /\ positions[last.key] = last.prepos

\* C17 (witness): a successful close of a position that funding had partly
\* amortized and that still carried debt.
C17_AmortizedClosePaid ==
  /\ Succeeded("close_position")
  /\ RemainingFactorOfLast < PRECISION
  /\ CloseEffDeltaK > 0
  /\ last.out = CloseNumerator \div CloseDenominator

\* C20: the cumulative funding accumulator never decreases from one step to
\* the next, and the entry snapshot of every open position is at most the
\* current accumulator.
C20_AccumulatorMonotone ==
  /\ [][pool'.cumulative_funding_accumulator
          >= pool.cumulative_funding_accumulator]_vars
  /\ [](\A k \in Keys :
          positions[k].open
            => positions[k].entry_funding_accumulator
                 <= pool.cumulative_funding_accumulator)

\* C20 (witness): funding has accrued since an open position took its
\* snapshot, so the accumulator has risen strictly above it.
C20_AccruedSinceEntry ==
  \E k \in Keys :
    /\ positions[k].open
    /\ pool.cumulative_funding_accumulator > 0
    /\ positions[k].entry_funding_accumulator
         < pool.cumulative_funding_accumulator

\* The instruction recorded in "last" found its position and passed the
\* funding update, and the accumulator then stood a full PRECISION or more
\* above the position's entry snapshot.
FullyAmortizedLast ==
  /\ last.prepos.open
  /\ last.key[1] = last.prepos.authority
  /\ FundedPre.err = "Ok"
  /\ FundedPre.val.cumulative_funding_accumulator
       - last.prepos.entry_funding_accumulator >= PRECISION

\* C19: once the accumulator is PRECISION or more above a position's entry
\* snapshot the remaining factor is 0, so close_position and liquidate both
\* compute an effective size of 0 and an effective delta_k of 0, with no
\* arithmetic failure; below that the factor is PRECISION minus the
\* difference.
C19_FactorClampedToZero ==
  /\ (last.op = "close_position" /\ last.signer = last.prepos.authority
      /\ FullyAmortizedLast)
       => /\ RemainingFactorOfLast = 0
          /\ CloseEffSize = 0 /\ CloseEffDeltaK = 0
  /\ (last.op = "liquidate" /\ FullyAmortizedLast)
       => /\ liquidate_effective(FundedPre.val, last.prepos).err = "Ok"
          /\ EffOfLast.size = 0 /\ EffOfLast.delta_k = 0
          /\ last.err \notin {"MathUnderflow", "MathOverflow"}
  /\ ((last.op = "close_position" \/ last.op = "liquidate")
      /\ last.prepos.open /\ FundedPre.err = "Ok" /\ ~FullyAmortizedLast)
       => RemainingFactorOfLast
            = PRECISION - (FundedPre.val.cumulative_funding_accumulator
                             - last.prepos.entry_funding_accumulator)

\* C19 (state reached by the flaw): a liquidation of a position whose
\* remaining factor is 0 went through and paid the liquidator out of an
\* effective size that was not 0.
C19_LiquidatedAtFullSize ==
  /\ last.op = "liquidate" /\ FullyAmortizedLast
  /\ last.err = "Ok"
  /\ EffOfLast.size > 0
  /\ last.out > 0

\* The funding update of pool p over "elapsed" seconds stays inside the
\* model's 32-bit integers.
FundingFits(p, elapsed) ==
  IF total_delta_k(p) = 0 \/ original_k(p) <= total_delta_k(p) THEN TRUE
  ELSE IF (total_delta_k(p) * PRECISION) \div (original_k(p) - total_delta_k(p))
            > 2 * PRECISION
  THEN FALSE
  ELSE FundingRate(p) * total_delta_k(p) <= (4 * INDEX_PRECISION) \div elapsed

\* Gaps, in seconds, between two consecutive funding updates.
FundingGaps == {1, 30, 49999}

\* The pool after two funding updates in a row, d1 and then d2 seconds on.
AdvancedTwice(p, d1, d2) ==
  Only({ IF first.err # "Ok" THEN first
         ELSE update_funding_accumulators(first.val, p.last_update_timestamp + d1 + d2) :
         first \in {update_funding_accumulators(p, p.last_update_timestamp + d1)} })

AdvancedOnce(p, d1, d2) ==
  update_funding_accumulators(p, p.last_update_timestamp + d1 + d2)

SameReservesAndTotals(p, q) ==
  /\ p.sol_reserve = q.sol_reserve
  /\ p.token_reserve = q.token_reserve
  /\ p.effective_sol_reserve = q.effective_sol_reserve
  /\ p.effective_token_reserve = q.effective_token_reserve
  /\ p.total_delta_k_longs = q.total_delta_k_longs
  /\ p.total_delta_k_shorts = q.total_delta_k_shorts

\* C21: funding is time-homogeneous: from a pool with outstanding positions,
\* two funding updates in a row give the same result as one update over the
\* combined time: the same outcome, equal delta_k totals and reserves, and
\* an accumulator that differs by at most 1.
C21_FundingTimeHomogeneous ==
  total_delta_k(pool) > 0
    => \A d1 \in FundingGaps, d2 \in FundingGaps :
         FundingFits(pool, d1 + d2)
           => \A twice \in {AdvancedTwice(pool, d1, d2)}, once \in {AdvancedOnce(pool, d1, d2)} :
                /\ twice.err = once.err
                /\ once.err = "Ok"
                     => /\ SameReservesAndTotals(twice.val, once.val)
                        /\ AbsDiff(twice.val.cumulative_funding_accumulator, once.val.cumulative_funding_accumulator) <= 1
                        /\ twice.val.last_update_timestamp = once.val.last_update_timestamp

\* C21 (witness): a pool with open positions where the two updates accrue
\* funding and lose one unit to rounding against the single update.
C21_SplitAdvanceRounds ==
  /\ total_delta_k(pool) > 0 /\ ~NoOpenPosition
  /\ \E d1 \in FundingGaps, d2 \in FundingGaps :
       /\ FundingFits(pool, d1 + d2)
       /\ \E twice \in {AdvancedTwice(pool, d1, d2)}, once \in {AdvancedOnce(pool, d1, d2)} :
            /\ once.err = "Ok"
            /\ twice.val.cumulative_funding_accumulator > pool.cumulative_funding_accumulator
            /\ once.val.cumulative_funding_accumulator = twice.val.cumulative_funding_accumulator + 1

\* Times at which a funding update may be asked for, on both sides of the
\* pool's last update.
FundingTimes == {0, 1, 99999, 100000}

\* update_funding_accumulators left everything but the timestamp alone and
\* did not move the timestamp backwards.
FundingNoOp(p, r) ==
  /\ r.err = "Ok"
  /\ SameReservesAndTotals(p, r.val)
  /\ r.val.cumulative_funding_accumulator = p.cumulative_funding_accumulator
  /\ r.val.unrealized_funding_fees = p.unrealized_funding_fees
  /\ r.val.last_update_timestamp >= p.last_update_timestamp

AmmOps ==
  {"swap", "leverage_swap", "close_position", "whiplash_close_position",
   "liquidate"}

\* C23: swap, leverage_swap, close_position and liquidate advance funding to
\* the current time before anything else: after a successful one the pool's
\* last_update_timestamp is the time it ran at, and what a close pays is
\* computed from the accumulator as of that time.
C23_FundingAdvancedFirst ==
  (last.op \in AmmOps /\ last.err = "Ok")
    => /\ pool.last_update_timestamp = last.at
       /\ last.op \in {"close_position", "whiplash_close_position"}
            => /\ FundedPre.err = "Ok"
               /\ last.out = CloseNumerator \div CloseDenominator

\* C23 (state reached by the flaw): the pool program's close_position went
\* through on a pool with outstanding delta_k whose funding was last updated
\* earlier, and left the timestamp there.
C23_ClosedWithoutFundingUpdate ==
  /\ last.op = "whiplash_close_position" /\ last.err = "Ok"
  /\ total_delta_k(last.pre) > 0
  /\ last.pre.last_update_timestamp < last.at
  /\ pool.last_update_timestamp < last.at

\* The cost of moving the curve from q1 to q2 tokens sold:
\* floor(m * (q2^2 - q1^2) / (2 * SCALE)).
CurveCost(bc, q1, q2) ==
  (bc.bonding_curve_slope_m * (q2 * q2 - q1 * q1)) \div (2 * SLOPE_PRECISION)

\* The buy recorded in "last" ran on an Active curve with an amount whose
\* uncapped output overshoots the target.
OvershootingBuy ==
  /\ last.op = "curve_buy" /\ last.arg > 0
  /\ last.precurve.status = "Active"
  /\ calculate_tokens_out_for_sol(last.precurve, last.arg).err = "Ok"
  /\ last.precurve.tokens_sold_on_curve
       + calculate_tokens_out_for_sol(last.precurve, last.arg).val
       > last.precurve.bonding_target_tokens_sold

\* C24: tokens_sold_on_curve never exceeds bonding_target_tokens_sold; a buy
\* whose uncapped output would overshoot the target sells exactly
\* target - tokens_sold, records
\* sol_spent = floor(m * (target^2 - q1^2) / (2 * SCALE)) <= sol_in, and
\* returns sol_in - sol_spent to the buyer.
C24_BuyCappedAtTarget ==
  /\ bonding_curve.tokens_sold_on_curve <= bonding_curve.bonding_target_tokens_sold
  /\ OvershootingBuy
       => /\ last.err = "Ok"
          /\ last.out = last.precurve.bonding_target_tokens_sold
                          - last.precurve.tokens_sold_on_curve
          /\ bonding_curve.tokens_sold_on_curve
               = last.precurve.bonding_target_tokens_sold
          /\ bonding_curve.sol_raised_on_curve - last.precurve.sol_raised_on_curve
               = CurveCost(last.precurve, last.precurve.tokens_sold_on_curve,
                           last.precurve.bonding_target_tokens_sold)
          /\ bonding_curve.sol_raised_on_curve - last.precurve.sol_raised_on_curve
               <= last.arg
          /\ last.refund
               = last.arg - (bonding_curve.sol_raised_on_curve
                               - last.precurve.sol_raised_on_curve)

\* C24 (state reached by the flaw): an overshooting buy failed because the
\* pool could not pay the refund out of the lamports it holds.
C24_OvershootingBuyRejected ==
  /\ OvershootingBuy
  /\ last.err = "InsufficientFunds"
  /\ bonding_curve = last.precurve

\* The sell recorded in "last" came right after a buy that did not graduate
\* the curve, and offered exactly the tokens that buy had received.
SoldBackWhatWasBought ==
  /\ last.op = "curve_sell"
  /\ last.bought > 0
  /\ last.arg = last.bought_out

TokenPriceAfterBuy ==
  (last.bought_pre.bonding_curve_slope_m
     * (last.bought_pre.tokens_sold_on_curve + last.bought_out + 1))
    \div SLOPE_PRECISION

TargetReached(bc) ==
  \/ bc.tokens_sold_on_curve >= bc.bonding_target_tokens_sold
  \/ bc.sol_raised_on_curve >= bc.bonding_target_sol

SamePoolReserves(p, q) ==
  /\ p.sol_reserve = q.sol_reserve
  /\ p.token_reserve = q.token_reserve
  /\ p.effective_sol_reserve = q.effective_sol_reserve
  /\ p.effective_token_reserve = q.effective_token_reserve

\* C26: a successful curve buy leaves the curve Graduated exactly when,
\* after it, tokens_sold_on_curve has reached bonding_target_tokens_sold or
\* sol_raised_on_curve has reached bonding_target_sol; a sell changes
\* neither the curve status nor any pool reserve.
C26_GraduatesExactlyAtTarget ==
  /\ Succeeded("curve_buy")
       => /\ bonding_curve.status \in {"Active", "Graduated"}
          /\ bonding_curve.status = "Graduated" <=> TargetReached(bonding_curve)
  /\ last.op = "curve_sell"
       => /\ bonding_curve.status = last.precurve.status
          /\ SamePoolReserves(pool, last.pre)

\* C26 (witness): a buy graduated the curve on the SOL target alone, with
\* tokens still left below the token target.
C26_GraduatedOnSolTarget ==
  /\ Succeeded("curve_buy")
  /\ bonding_curve.status = "Graduated"
  /\ bonding_curve.sol_raised_on_curve >= bonding_curve.bonding_target_sol
  /\ bonding_curve.tokens_sold_on_curve < bonding_curve.bonding_target_tokens_sold

\* The instruction recorded in "last" is the buy that graduated the curve.
JustGraduated == Succeeded("curve_buy") /\ Graduated

\* C27: right after graduation sol_reserve = effective_sol_reserve =
\* sol_raised_on_curve, token_reserve = effective_token_reserve =
\* floor(bonding_target_tokens_sold / 2), both delta_k totals are 0,
\* ema_initialized is true and ema_price =
\* effective_sol_reserve * PRICE_PRECISION / effective_token_reserve.
C27_GraduationSeedsPool ==
  JustGraduated
    => /\ pool.sol_reserve = bonding_curve.sol_raised_on_curve
       /\ pool.effective_sol_reserve = bonding_curve.sol_raised_on_curve
       /\ pool.token_reserve = bonding_curve.bonding_target_tokens_sold \div 2
       /\ pool.effective_token_reserve
            = bonding_curve.bonding_target_tokens_sold \div 2
       /\ pool.total_delta_k_longs = 0
       /\ pool.total_delta_k_shorts = 0
       /\ pool.ema_initialized
       /\ pool.ema_price
            = (pool.effective_sol_reserve * PRICE_PRECISION)
                \div pool.effective_token_reserve

\* C27 (witness): a graduation on the token target with less than the SOL
\* target raised, after earlier trading on the curve.
C27_GraduatedBelowSolTarget ==
  /\ JustGraduated
  /\ ~last.pre.ema_initialized
  /\ last.precurve.tokens_sold_on_curve > 0
  /\ bonding_curve.sol_raised_on_curve < bonding_curve.bonding_target_sol
  /\ pool.ema_price > 0

\* The buy recorded in "last" ran on a curve nothing had traded on yet, with
\* sol_in equal to the curve's SOL target.
BoughtTargetOnFreshCurve ==
  /\ last.op = "curve_buy"
  /\ last.precurve.status = "Active"
  /\ last.precurve.tokens_sold_on_curve = 0
  /\ last.precurve.sol_raised_on_curve = 0
  /\ last.prelamports = 0
  /\ last.arg = last.precurve.bonding_target_sol

\* C28: on a freshly launched curve a single buy with sol_in = target_sol
\* graduates the curve and seeds the pool with sol_reserve = target_sol and
\* token_reserve = target_tokens_sold / 2.
C28_TargetBuySeedsTargets ==
  BoughtTargetOnFreshCurve
    => /\ last.err = "Ok"
       /\ Graduated
       /\ pool.sol_reserve = last.precurve.bonding_target_sol
       /\ pool.token_reserve = last.precurve.bonding_target_tokens_sold \div 2

\* C28 (state reached by the flaw): the buy of target_sol on the fresh
\* default curve graduated it with less than target_sol as sol_reserve and
\* the rest refunded.
C28_DefaultCurveSeededShort ==
  /\ BoughtTargetOnFreshCurve /\ last.err = "Ok" /\ Graduated
  /\ last.precurve.bonding_target_sol = DEFAULT_TARGET_SOL
  /\ last.precurve.bonding_target_tokens_sold = DEFAULT_TARGET_TOKENS_SOLD
  /\ pool.sol_reserve < DEFAULT_TARGET_SOL
  /\ last.refund = DEFAULT_TARGET_SOL - pool.sol_reserve

\* The swap_on_curve recorded in "last" ran on a curve that had graduated.
CurveSwapAfterGraduation ==
  /\ last.op \in {"curve_buy", "curve_sell"}
  /\ last.precurve.status = "Graduated"

CurveSwapChangedNothing ==
  /\ bonding_curve = last.precurve
  /\ SamePoolReserves(pool, last.pre)
  /\ pool_lamports = last.prelamports

StaysGraduated ==
  [][bonding_curve.status = "Graduated" => bonding_curve'.status = "Graduated"]_vars

\* C29: graduation is one-way: a Graduated curve never becomes Active
\* again, and every later swap_on_curve, buy or sell, fails with
\* BondingCurveNotActive and changes neither tokens_sold_on_curve nor
\* sol_raised_on_curve nor the pool reserves.
C29_GraduatedCurveRejectsSwaps ==
  /\ StaysGraduated
  /\ [](CurveSwapAfterGraduation
          => /\ last.err = "BondingCurveNotActive"
             /\ CurveSwapChangedNothing)

\* C29 (amended): as above, except that a swap_on_curve with amount_in = 0
\* fails with ZeroSwapAmount, which is checked before the curve status.
C29_GraduatedCurveRejectsSwapsByAmount ==
  /\ StaysGraduated
  /\ [](CurveSwapAfterGraduation
          => /\ last.err = IF last.arg = 0 THEN "ZeroSwapAmount"
                           ELSE "BondingCurveNotActive"
             /\ CurveSwapChangedNothing)

\* C29 (witness): after graduation and further trading on the pool, a sell
\* on the curve was turned away.
C29_SellAfterGraduationRejected ==
  /\ CurveSwapAfterGraduation
  /\ last.op = "curve_sell" /\ last.arg > 0
  /\ last.err = "BondingCurveNotActive"
  /\ last.pre.effective_sol_reserve # last.pre.sol_reserve
  /\ CurveSwapChangedNothing

\* The instruction recorded in "last" is a sell of last.arg > 0 tokens on an
\* Active curve.
CurveSellReached ==
  /\ last.op = "curve_sell"
  /\ last.precurve.status = "Active"
  /\ last.arg > 0

CurveSellQuote ==
  CurveCost(last.precurve, last.precurve.tokens_sold_on_curve - last.arg, last.precurve.tokens_sold_on_curve)

\* C30: a curve sell of tokens_in fails with InsufficientTokensSold when
\* tokens_in > tokens_sold_on_curve and with InsufficientCurveSol when
\* sol_out = floor(m * (q1^2 - (q1 - tokens_in)^2) / (2 * SCALE)) exceeds
\* sol_raised_on_curve; a successful sell returns that sol_out and lowers
\* tokens_sold_on_curve by tokens_in and sol_raised_on_curve by sol_out.
\* The curve always holds at least the SOL its sold tokens cost, so the
\* InsufficientCurveSol branch is also exercised on the same curve with every
\* lower sol_raised_on_curve.
C30_CurveSellQuoteAndEffect ==
  CurveSellReached
    => /\ last.arg > last.precurve.tokens_sold_on_curve
            => last.err = "InsufficientTokensSold"
       /\ (/\ last.arg <= last.precurve.tokens_sold_on_curve
           /\ CurveSellQuote > last.precurve.sol_raised_on_curve)
            => last.err = "InsufficientCurveSol"
       /\ last.err = "Ok"
            => /\ last.out = CurveSellQuote
               /\ bonding_curve.tokens_sold_on_curve = last.precurve.tokens_sold_on_curve - last.arg
               /\ bonding_curve.sol_raised_on_curve = last.precurve.sol_raised_on_curve - last.out
       /\ \A raised \in 0 .. last.precurve.sol_raised_on_curve :
            last.arg <= last.precurve.tokens_sold_on_curve
              => (CurveSellQuote > raised
                    <=> calculate_sol_out_for_tokens([last.precurve EXCEPT !.sol_raised_on_curve = raised], last.arg).err = "InsufficientCurveSol")

\* C30 (witness): part of the tokens sold were sold back for a rounded
\* amount, leaving tokens and SOL on the curve.
C30_PartialSellPaid ==
  /\ CurveSellReached
  /\ last.err = "Ok"
  /\ last.out > 0
  /\ bonding_curve.tokens_sold_on_curve > 0
  /\ bonding_curve.sol_raised_on_curve > 0
  /\ (last.precurve.bonding_curve_slope_m * (last.precurve.tokens_sold_on_curve * last.precurve.tokens_sold_on_curve - bonding_curve.tokens_sold_on_curve * bonding_curve.tokens_sold_on_curve)) % (2 * SLOPE_PRECISION) # 0

LaunchReached == last.op = "launch_on_curve"

\* The arguments of the launch recorded in "last", defaults filled in.
LaunchSupply == unwrap_or(last.params[1], DEFAULT_TOTAL_SUPPLY)

LaunchTargetSol == unwrap_or(last.params[2], DEFAULT_TARGET_SOL)

LaunchTargetTokens == unwrap_or(last.params[3], DEFAULT_TARGET_TOKENS_SOLD)

LaunchParamsValid ==
  /\ LaunchSupply > 0
  /\ LaunchTargetSol > 0
  /\ 0 < LaunchTargetTokens /\ LaunchTargetTokens <= LaunchSupply

\* C31: launch_on_curve fails with InvalidBondingCurveParams unless, after
\* the defaults are applied, total_supply > 0, target_sol > 0 and
\* 0 < target_tokens_sold <= total_supply, and then writes nothing; a
\* successful launch leaves the curve Active with tokens_sold = sol_raised
\* = 0 and the pool with all four reserves, both delta_k totals and the
\* accumulator equal to 0.
C31_LaunchValidatesAndZeroes ==
  LaunchReached
    => /\ last.err = "InvalidBondingCurveParams" <=> ~LaunchParamsValid
       /\ ~LaunchParamsValid
            => bonding_curve = last.precurve /\ pool = last.pre
       /\ last.err = "Ok"
            => /\ bonding_curve.status = "Active"
               /\ bonding_curve.tokens_sold_on_curve = 0
               /\ bonding_curve.sol_raised_on_curve = 0
               /\ pool.sol_reserve = 0 /\ pool.token_reserve = 0
               /\ pool.effective_sol_reserve = 0
               /\ pool.effective_token_reserve = 0
               /\ pool.total_delta_k_longs = 0
               /\ pool.total_delta_k_shorts = 0
               /\ pool.cumulative_funding_accumulator = 0

\* C31 (witness): a launch without arguments succeeded on the defaults, after
\* an earlier launch had been turned away.
C31_LaunchedOnDefaults ==
  /\ LaunchReached
  /\ last.err = "Ok"
  /\ last.params = <<None, None, None>>
  /\ nops > 1
  /\ bonding_curve.bonding_target_sol = DEFAULT_TARGET_SOL
  /\ bonding_curve.bonding_target_tokens_sold = DEFAULT_TARGET_TOKENS_SOLD
  /\ vault_tokens = DEFAULT_TOTAL_SUPPLY

\* Input amounts a quote is asked for.
QuoteInputs == {0, 1, 50, 100}

\* ceil(a / b) for b > 0.
CeilDiv(a, b) == (a + b - 1) \div b

\* What the claim says of a quote for "input" of the asset whose pricing
\* reserve is "inr", paid from the pricing reserve "outr".
QuoteAsClaimed(q, inr, outr, input) ==
  IF input = 0 THEN q.err = "ZeroSwapAmount"
  ELSE IF inr = 0 \/ outr = 0 THEN q.err = "InsufficientLiquidity"
  ELSE q.err = "Ok" /\ q.val = outr - CeilDiv(inr * outr, inr + input)

\* C32: for pricing reserves x, y > 0 and input > 0 the spot output for a SOL
\* input is y - ceil(x * y / (x + input)), mirrored for a token input; x = y =
\* 1000 with input 100 gives 90 and k' = 1001000; a zero input fails with
\* ZeroSwapAmount and a zero reserve with InsufficientLiquidity.
C32_SpotQuote ==
  /\ \A input \in QuoteInputs :
       /\ QuoteAsClaimed(calculate_swap_x_to_y(pool.effective_sol_reserve, pool.effective_token_reserve, input), pool.effective_sol_reserve, pool.effective_token_reserve, input)
       /\ QuoteAsClaimed(calculate_swap_y_to_x_plain(input, pool.effective_sol_reserve, pool.effective_token_reserve), pool.effective_token_reserve, pool.effective_sol_reserve, input)
  /\ calculate_swap_x_to_y(1000, 1000, 100) = Ok(90)
  /\ (1000 + 100) * (1000 - calculate_swap_x_to_y(1000, 1000, 100).val) = 1001000

\* C32 (witness): a pool moved off its seed by trading, where a quote in each
\* direction pays out and rounds the remaining reserve up.
C32_QuotedWithRounding ==
  /\ Graduated
  /\ last.err = "Ok" /\ last.op \in {"swap", "leverage_swap", "close_position"}
  /\ pool.effective_sol_reserve > 0 /\ pool.effective_token_reserve > 0
  /\ pool.effective_sol_reserve # pool.effective_token_reserve
  /\ \E input \in QuoteInputs :
       /\ input > 0
       /\ (pool.effective_sol_reserve * pool.effective_token_reserve) % (pool.effective_sol_reserve + input) # 0
       /\ (pool.effective_sol_reserve * pool.effective_token_reserve) % (pool.effective_token_reserve + input) # 0
       /\ calculate_swap_x_to_y(pool.effective_sol_reserve, pool.effective_token_reserve, input).val > 0
       /\ calculate_swap_y_to_x_plain(input, pool.effective_sol_reserve, pool.effective_token_reserve).val > 0

LeverageSwapReached == last.op = "leverage_swap"

LeverageOutOfRange == last.leverage < 10 \/ last.leverage > 100

\* The rejected leverage_swap created no position and left the pool as it was.
OpenChangedNothing ==
  /\ pool = last.pre
  /\ positions[last.key] = last.prepos
  /\ pool_lamports = PreLamports /\ vault_tokens = PreVault

\* The output computed for the leverage_swap in "last" is below its
\* min_amount_out.
OutputBelowMinimum ==
  /\ last.arg > 0 /\ ~LeverageOutOfRange
  /\ FundedPre.err = "Ok"
  /\ \E quote \in {calculate_output(FundedPre.val, TotalInputOfLast, last.is_sol)} :
       quote.err = "Ok" /\ quote.val < last.min_out

\* C33: leverage_swap fails with ZeroSwapAmount when amount_in = 0 and with
\* InvalidLeverage when leverage < 10 or leverage > 100, creating no position
\* and changing no reserve or delta_k total; it fails with
\* SlippageToleranceExceeded when the computed output is below min_amount_out.
C33_OpenRejectsBadInput ==
  LeverageSwapReached
    => /\ last.arg = 0
            => last.err = "ZeroSwapAmount" /\ OpenChangedNothing
       /\ (last.arg > 0 /\ LeverageOutOfRange)
            => last.err = "InvalidLeverage" /\ OpenChangedNothing
       /\ OutputBelowMinimum
            => last.err = "SlippageToleranceExceeded" /\ OpenChangedNothing

\* C33 (witness): an open at leverage 10 whose output is below its
\* min_amount_out was rejected with MathUnderflow, and opens with a zero
\* amount or a leverage outside 10..100 had the stated errors.
C33_LowOutputFailedOtherwise ==
  /\ LeverageSwapReached
  /\ Graduated
  /\ OutputBelowMinimum
  /\ last.err = "MathUnderflow"
  /\ OpenChangedNothing

\* Largest argument of the contiguous range integer_sqrt is checked on.
MaxSqrtInput == 5000

\* Arguments around the largest squares whose successor square fits 31 bits.
LargeSqrtInputs ==
  {46339 * 46339 - 1, 46339 * 46339, 46339 * 46339 + 1, 46340 * 46340 - 1, 32768 * 32768 - 1, 32768 * 32768, 1000000007}

IsFloorSqrt(n, r) == r >= 0 /\ r * r <= n /\ n < (r + 1) * (r + 1)

\* The argument calculate_tokens_out_for_sol passes to integer_sqrt for a buy
\* of sol_in on the current curve.
BuySqrtInput(sol_in) ==
  IF bonding_curve.bonding_curve_slope_m = 0 THEN 0
  ELSE bonding_curve.tokens_sold_on_curve * bonding_curve.tokens_sold_on_curve + (2 * sol_in * SLOPE_PRECISION) \div bonding_curve.bonding_curve_slope_m

\* C34: integer_sqrt(n) terminates and returns the floor square root r of n,
\* r * r <= n < (r + 1) * (r + 1), and 0 for n = 0: for the argument of every
\* buy on every reachable curve, and (the function reads no state, so once,
\* before the first instruction) for every n up to MaxSqrtInput and for
\* arguments around the largest representable squares.
C34_IntegerSqrtIsFloor ==
  /\ bonding_curve.status = "Active"
       => \A sol_in \in CurveBuyAmounts :
            IsFloorSqrt(BuySqrtInput(sol_in), integer_sqrt(BuySqrtInput(sol_in)))
  /\ nops = 0
       => /\ integer_sqrt(0) = 0
          /\ \A n \in (0 .. MaxSqrtInput) \cup LargeSqrtInputs :
               IsFloorSqrt(n, integer_sqrt(n))

\* C34 (witness): a buy on a curve with tokens already sold took the root of
\* a number that is not a square.
C34_BuyTookInexactRoot ==
  /\ last.op = "curve_buy" /\ last.err = "Ok"
  /\ last.precurve.status = "Active"
  /\ last.precurve.tokens_sold_on_curve > 0
  /\ \E n \in {last.precurve.tokens_sold_on_curve * last.precurve.tokens_sold_on_curve + (2 * last.arg * SLOPE_PRECISION) \div last.precurve.bonding_curve_slope_m} :
       /\ integer_sqrt(n) * integer_sqrt(n) < n
       /\ last.precurve.tokens_sold_on_curve + last.out = integer_sqrt(n)

\* Effective reserves as the close in "last" left them before the snap to the
\* real reserves: the effective size returned, the payout taken out.
ClosedEffectiveSol ==
  IF last.prepos.is_long THEN last.pre.effective_sol_reserve - last.out
  ELSE last.pre.effective_sol_reserve + CloseEffSize

ClosedEffectiveToken ==
  IF last.prepos.is_long THEN last.pre.effective_token_reserve + CloseEffSize
  ELSE last.pre.effective_token_reserve - last.out

DebtRemains == pool.total_delta_k_longs # 0 \/ pool.total_delta_k_shorts # 0

\* C35: every successful close_position restores the invariant: the
\* effective k after the close, before any snap of the effective reserves to
\* the real ones, is at least the effective k before the close plus the
\* position's effective delta_k.
C35_CloseRestoresProduct ==
  Succeeded("close_position")
    => /\ ClosedEffectiveSol * ClosedEffectiveToken >= Product(last.pre) + CloseEffDeltaK
       /\ DebtRemains
            => /\ pool.effective_sol_reserve = ClosedEffectiveSol
               /\ pool.effective_token_reserve = ClosedEffectiveToken

\* C35 (witness): a position with debt was closed while another position kept
\* the effective reserves from being snapped, and rounding left the product
\* above the restored value.
C35_ClosedWithDebtBesideAnother ==
  /\ Succeeded("close_position")
  /\ CloseEffDeltaK > 0
  /\ DebtRemains
  /\ Product(pool) > Product(last.pre) + CloseEffDeltaK

\* The delta_k a close of the position would take off its side's total now.
CurrentEffectiveDeltaK(position) ==
  (position.delta_k * calculate_position_remaining_factor(pool, position.entry_funding_accumulator).val) \div PRECISION

RECURSIVE OpenEffectiveDeltaK(_, _)
OpenEffectiveDeltaK(keys, is_long) ==
  IF keys = {} THEN 0
  ELSE Only({ (IF positions[k].open /\ positions[k].is_long = is_long THEN CurrentEffectiveDeltaK(positions[k]) ELSE 0) + OpenEffectiveDeltaK(keys \ {k}, is_long) : k \in {CHOOSE k \in keys : TRUE} })

\* Two small longs opened one after the other on the pool 10_000 / 10_000,
\* then closed in the same order.
ExampleSmallOpenA ==
  handle_leverage_swap(ExamplePool, 10000, 10000, "alice", 10, 0, 11, 0, TRUE)

ExampleSmallOpenB ==
  handle_leverage_swap(ExampleSmallOpenA.val.pool, ExampleSmallOpenA.val.lamports, ExampleSmallOpenA.val.vault, "bob", 10, 0, 11, 0, TRUE)

ExampleCloseA ==
  handle_close_position(ExampleSmallOpenB.val.pool, ExampleSmallOpenA.val.position, ExampleSmallOpenB.val.lamports, ExampleSmallOpenB.val.vault)

ExampleCloseB ==
  handle_close_position(ExampleCloseA.val.pool, ExampleSmallOpenB.val.position, ExampleCloseA.val.lamports, ExampleCloseA.val.vault)

\* C36: for each side, the side's total_delta_k is at least the sum of the
\* current effective delta_k of the open positions on that side, so no close
\* of an open position fails with MathUnderflow at the decrement of the
\* total, whatever closes (and their snap of a total below
\* effective_k / 10_000 to zero) came before; in particular two small longs
\* on the pool 10_000 / 10_000 can both be closed.
C36_TotalsCoverOpenPositions ==
  /\ pool.total_delta_k_longs >= OpenEffectiveDeltaK(Keys, TRUE)
  /\ pool.total_delta_k_shorts >= OpenEffectiveDeltaK(Keys, FALSE)
  /\ (CloseReached /\ last.op = "close_position") => last.err # "MathUnderflow"
  /\ nops = 0
       => /\ ExampleCloseA.err = "Ok"
          /\ ExampleCloseA.val.pool.total_delta_k_longs >= ExampleSmallOpenB.val.position.delta_k
          /\ ExampleCloseB.err = "Ok"

\* C36 (state reached by the flaw): a position was closed beside another
\* open position of the same side; on the pool 10_000 / 10_000 the first
\* close snaps the total that still held the second long's delta_k to zero,
\* and the second close fails at the decrement.
C36_SnapErasedOpenDebt ==
  /\ Succeeded("close_position")
  /\ \E k \in Keys \ {last.key} :
       /\ positions[k].open /\ positions[k].is_long = last.prepos.is_long
       /\ positions[k].delta_k > 0
  /\ ExampleSmallOpenA.err = "Ok" /\ ExampleSmallOpenB.err = "Ok"
  /\ ExampleSmallOpenB.val.position.delta_k > 0
  /\ ExampleCloseA.err = "Ok"
  /\ ExampleCloseA.val.pool.total_delta_k_longs = 0
  /\ ExampleCloseB.err = "MathUnderflow"

\* A close has just snapped the effective reserves to the real ones while a
\* position is still open.
SnappedBesideOpenPosition ==
  /\ Succeeded("close_position")
  /\ ~DebtRemains
  /\ \E k \in Keys : positions[k].open

\* The outcome of two further instructions from the current state: the
\* leverage_swap "call" and then the close of the position under key.
OpenedThenClosed(key, call) ==
  Only({ IF opened.err # "Ok" THEN opened
         ELSE handle_close_position(opened.val.pool, positions[key], opened.val.lamports, opened.val.vault)
         : opened \in {handle_leverage_swap(pool, pool_lamports, vault_tokens, call[1][1], call[3], call[5], call[4], call[1][2], call[2])} })

EffectiveWithinReal(p) ==
  /\ p.effective_sol_reserve <= p.sol_reserve
  /\ p.effective_token_reserve <= p.token_reserve

\* C37: in every reachable AMM state effective_sol_reserve <= sol_reserve and
\* effective_token_reserve <= token_reserve, so a payout computed from the
\* effective reserves is covered by the real reserves and no close fails on
\* the subtraction from the real reserve; this also holds of the states two
\* instructions on (another user's open, then the close of an open position)
\* from a state whose reserves a close has just snapped.
C37_EffectiveWithinReal ==
  Graduated
    => /\ EffectiveWithinReal(pool)
       /\ (CloseReached /\ last.op = "close_position") => last.err # "MathOverflow"
       /\ SnappedBesideOpenPosition
            => \A key \in Keys, call \in LeverageCalls :
                 (positions[key].open /\ call[1] # key)
                   => \A closed \in {OpenedThenClosed(key, call)} :
                        closed.err = "Ok" => EffectiveWithinReal(closed.val.pool)

\* C37 (state reached by the flaw): a close snapped the effective reserves to
\* the real ones while a position without debt was open; after another
\* user's open the close of that position puts its size on top of the
\* snapped reserve, above the real reserve.
C37_SnapThenCloseExceedsReal ==
  /\ Graduated
  /\ SnappedBesideOpenPosition
  /\ EffectiveWithinReal(pool)
  /\ \E key \in Keys, call \in LeverageCalls :
       /\ positions[key].open /\ call[1] # key
       /\ \E closed \in {OpenedThenClosed(key, call)} :
            /\ closed.err = "Ok"
            /\ ~EffectiveWithinReal(closed.val.pool)
            /\ closed.val.pool.total_delta_k_longs + closed.val.pool.total_delta_k_shorts > 0

\* C38: for every parameter set launch_on_curve accepts, the token_reserve
\* recorded at graduation (target_tokens_sold / 2) is at most the tokens
\* left in the vault (total_supply - tokens_sold_on_curve): the AMM never
\* records tokens it does not hold.
C38_GraduationReserveInVault ==
  JustGraduated => pool.token_reserve <= vault_tokens

\* C38 (state reached by the flaw): a curve launched with its whole supply as
\* the target graduated with an empty vault and a recorded token reserve.
C38_GraduatedWithEmptyVault ==
  /\ JustGraduated
  /\ bonding_curve.tokens_sold_on_curve = bonding_curve.bonding_target_tokens_sold
  /\ vault_tokens = 0
  /\ pool.token_reserve = bonding_curve.bonding_target_tokens_sold \div 2
  /\ pool.token_reserve > 0

\* C39: after every successful launch_on_curve the stored slope
\* bonding_curve_slope_m is at least 1, so no buy on a launched curve fails on
\* the division by the slope: every launched curve can be bought from.
C39_LaunchedSlopePositive ==
  /\ bonding_curve.status # "Uninitialized" => bonding_curve.bonding_curve_slope_m >= 1
  /\ (last.op = "curve_buy" /\ last.precurve.status = "Active" /\ last.arg > 0)
       => last.err # "MathOverflow"

\* C39 (state reached by the flaw): a launch was accepted with a slope that
\* rounds to 0, and a buy on the Active curve failed on the division.
C39_BuyOnZeroSlopeFailed ==
  /\ Active
  /\ bonding_curve.bonding_curve_slope_m = 0
  /\ 2 * bonding_curve.bonding_target_sol * SLOPE_PRECISION < bonding_curve.bonding_target_tokens_sold * bonding_curve.bonding_target_tokens_sold
  /\ last.op = "curve_buy" /\ last.arg > 0
  /\ last.err = "MathOverflow"

\* The price of all the tokens the curve has sold, rounded down.
SoldTokensCost ==
  CurveCost(bonding_curve, 0, bonding_curve.tokens_sold_on_curve)

\* C40: in every reachable Active curve state sol_raised_on_curve is at least
\* floor(m * tokens_sold_on_curve^2 / (2 * SCALE)); so no sell of tokens_in
\* with 1 <= tokens_in <= tokens_sold_on_curve fails with
\* InsufficientCurveSol, and the buys and sells so far have not returned more
\* SOL than was paid in: what the pool holds is what the curve records.
C40_CurveHoldsCostOfSoldTokens ==
  Active
    => /\ bonding_curve.sol_raised_on_curve >= SoldTokensCost
       /\ \A tokens_in \in 1 .. bonding_curve.tokens_sold_on_curve :
            calculate_sol_out_for_tokens(bonding_curve, tokens_in).err = "Ok"
       /\ last.op = "curve_sell" => last.err # "InsufficientCurveSol"
       /\ pool_lamports = bonding_curve.sol_raised_on_curve
       /\ pool_lamports >= 0

\* C40 (witness): after buys and a partial sell the curve holds more SOL than
\* the rounded price of the tokens still sold.
C40_RoundingKeptOnCurve ==
  /\ Active
  /\ Succeeded("curve_sell")
  /\ bonding_curve.tokens_sold_on_curve > 0
  /\ bonding_curve.sol_raised_on_curve > SoldTokensCost
  /\ SoldTokensCost > 0

====
